---------------------------- MODULE Spec2Model ----------------------------
(***************************************************************************)
(* Alert-decision pipeline of the vehicle predictive-maintenance system:   *)
(*   VehicleAlertSystem  (src/vehicle_alert_system.py)  classification,    *)
(*                       current alerts, history, snooze, config update    *)
(*   MobileAlertSystem   (src/mobile_alert_system.py)   notification gate  *)
(*                       (quiet hours, escalation, cooldown) and dispatch  *)
(*                                                                         *)
(* Time is in minutes since midnight of day 0.  Probabilities are in       *)
(* percent (70 stands for 0.7). A Python dict is an ordered sequence of    *)
(* key/value pairs; an alert dict is an object, identified by its index in *)
(* alert_history (every alert object is appended there when it is made),   *)
(* so current_alerts holds references and sees the aliasing of the code.   *)
(***************************************************************************)
EXTENDS Integers, Sequences, FiniteSets, TLC

VARIABLES
    now,                  \* datetime.now(), in minutes
    models,               \* VehicleAlertSystem.models / scalers: components with a predictor
    alert_config,         \* VehicleAlertSystem.alert_config
    current_alerts,       \* VehicleAlertSystem.current_alerts: dict component -> alert object
    alert_history,        \* VehicleAlertSystem.alert_history: list of alert objects
    config,               \* MobileAlertSystem.config
    firebase_initialized, \* MobileAlertSystem.firebase_initialized
    mobile_alert_history, \* MobileAlertSystem.alert_history: dict component -> record
    driver,               \* DriverAlertInterface: running, and its monitoring thread
    monitor,              \* MobileAlertSystem: running, and its monitoring thread
    input,                \* the input thread: its place in a call of snooze_alert
    second,               \* the thread of a second MobileAlertSystem.start_monitoring
    ret                   \* the last call: its name, arguments and return value
                          \* (of a dispatch cycle also the records it found)

vars == <<now, models, alert_config, current_alerts, alert_history,
          config, firebase_initialized, mobile_alert_history, driver, monitor,
          input, second, ret>>

vehicle_vars == <<models, alert_config, current_alerts, alert_history>>
mobile_vars == <<config, firebase_initialized, mobile_alert_history>>
other_threads == <<input, second>>
loop_vars == <<driver, monitor, other_threads>>

---------------------------------------------------------------------------
(* Bounds of the model *)

\* the evaluations recorded in alert_history during a run
MaxHistory == 2
\* the clock ticks of a run
MaxTicks == 1

---------------------------------------------------------------------------
(* VehicleAlertSystem: configuration *)

Components == {"engine", "battery"}

Levels == {"high", "medium", "low"}

\* None, the result of _determine_alert_level below every threshold
NoLevel == "none"

\* failure probabilities, in percent
Probabilities == 0 .. 100

\* _create_default_alert_config; of "notification_settings" the one key the
\* modelled operations read
DefaultAlertConfig ==
    [alert_thresholds |-> [high |-> 70, medium |-> 40, low |-> 20],
     notification_settings |-> [snooze_duration_minutes |-> 60],
     component_priorities |->
         [engine |-> 5, brakes |-> 5, transmission |-> 4, electrical |-> 3,
          battery |-> 2]]

\* threshold documents a configuration file or update_alert_config may hold:
\* the default, a raised one, and one that is not ordered high >= medium >= low
\* (neither _load_alert_config nor update_alert_config validates the order)
ThresholdChoices ==
    {[high |-> 70, medium |-> 40, low |-> 20],
     [high |-> 90, medium |-> 60, low |-> 40],
     [high |-> 20, medium |-> 40, low |-> 70]}

Ordered(th) == th.high >= th.medium /\ th.medium >= th.low

\* the mutant: the comparisons exclude the threshold itself
determine_alert_level_strict(probability, thresholds) ==
    IF probability > thresholds.high THEN "high"
    ELSE IF probability > thresholds.medium THEN "medium"
    ELSE IF probability > thresholds.low THEN "low"
    ELSE NoLevel

\* the mutant: the labels of the two upper bands are exchanged
determine_alert_level_swapped(probability, thresholds) ==
    IF probability >= thresholds.high THEN "medium"
    ELSE IF probability >= thresholds.medium THEN "high"
    ELSE IF probability >= thresholds.low THEN "low"
    ELSE NoLevel

\* the mutant: the thresholds are tested from the lowest up
determine_alert_level_low_first(probability, thresholds) ==
    IF probability >= thresholds.low THEN "low"
    ELSE IF probability >= thresholds.medium THEN "medium"
    ELSE IF probability >= thresholds.high THEN "high"
    ELSE NoLevel

\* VehicleAlertSystem._determine_alert_level
determine_alert_level(probability, thresholds) ==
    IF probability >= thresholds.high THEN "high"
    ELSE IF probability >= thresholds.medium THEN "medium"
    ELSE IF probability >= thresholds.low THEN "low"
    ELSE NoLevel

\* VehicleAlertSystem._generate_alert_message: the urgency phrase and the call
\* to action are keyed by the level, the component name and the probability
\* ("{probability:.1%}": tenths of a percent) are rendered into it
generate_alert_message(component, level, probability) ==
    <<level, component, probability * 10>>

\* the ordering None < Low < Medium < High
LevelRank(level) ==
    CASE level = "high" -> 3
      [] level = "medium" -> 2
      [] level = "low" -> 1
      [] OTHER -> 0

---------------------------------------------------------------------------
(* VehicleAlertSystem: state *)

\* dict helpers: a dict is a sequence of [key, ref] pairs in insertion order
HasKey(d, k) == \E i \in 1 .. Len(d) : d[i].key = k

KeyIndex(d, k) == CHOOSE i \in 1 .. Len(d) : d[i].key = k

\* del d[k]
DictDel(d, k) == SelectSeq(d, LAMBDA e : e.key # k)

\* d[k] = ref: an existing key keeps its place, a new one goes last
DictSet(d, k, ref) ==
    IF HasKey(d, k)
    THEN [d EXCEPT ![KeyIndex(d, k)] = [key |-> k, ref |-> ref]]
    ELSE Append(d, [key |-> k, ref |-> ref])

\* current_alerts[component], the alert object itself
CurrentAlert(component) ==
    alert_history[current_alerts[KeyIndex(current_alerts, component)].ref]


\* sorted(alerts, key=lambda x: (-x['priority'], -x['probability'])): a goes
\* strictly before b
SortsBefore(a, b) ==
    \/ a.priority > b.priority
    \/ a.priority = b.priority /\ a.probability > b.probability

\* the mutant: an unstable insertion, ref goes in front of the elements that
\* are equal to it on both keys
RECURSIVE InsertSorted_before_equals(_, _, _)
InsertSorted_before_equals(refs, ref, hist) ==
    IF refs = <<>> THEN <<ref>>
    ELSE IF ~SortsBefore(hist[Head(refs)], hist[ref])
         THEN <<ref>> \o refs
         ELSE <<Head(refs)>> \o InsertSorted_before_equals(Tail(refs), ref, hist)

\* one insertion of a stable sort: ref goes behind every element that does
\* not sort strictly after it
RECURSIVE InsertSorted(_, _, _)
InsertSorted(refs, ref, hist) ==
    IF refs = <<>> THEN <<ref>>
    ELSE IF SortsBefore(hist[ref], hist[Head(refs)])
         THEN <<ref>> \o refs
         ELSE <<Head(refs)>> \o InsertSorted(Tail(refs), ref, hist)

\* sorted(): stable, by descending priority, then descending probability
RECURSIVE sorted(_, _)
sorted(refs, hist) ==
    IF refs = <<>> THEN <<>>
    ELSE InsertSorted(sorted(SubSeq(refs, 1, Len(refs) - 1), hist),
                      refs[Len(refs)], hist)

\* list(self.current_alerts.values()), as references
Values(d) == [i \in 1 .. Len(d) |-> d[i].ref]

\* the mutant: the current alerts in the insertion order of the dict
get_current_alerts_insertion_order == Values(current_alerts)

\* VehicleAlertSystem.get_current_alerts
get_current_alerts == sorted(Values(current_alerts), alert_history)

\* the predictor's answer for one component of a telemetry batch: a failure
\* probability, or an exception raised while scaling or predicting
Outcomes(probabilities) ==
    [raises : {FALSE}, probability : probabilities]
        \cup {[raises |-> TRUE, probability |-> 0]}

\* telemetry_data: a dict, component -> features, in the order of its keys
RECURSIVE Batches(_, _)
Batches(cs, outcomes) ==
    {<<>>} \cup
    UNION {{<<[component |-> c, outcome |-> o]>> \o rest :
               o \in outcomes, rest \in Batches(cs \ {c}, outcomes)} : c \in cs}

\* the telemetry of the alert system's runs: a probability below every
\* threshold of ThresholdChoices or one between them, or an error
TelemetryBatches == Batches(Components, Outcomes({10, 50}))

\* the alert dict process_telemetry_data builds; snoozed_until is a key the
\* dict does not have until snooze_alert sets it: the empty set here
NewAlert(component, probability, level, current_time) ==
    [component |-> component,
     probability |-> probability,
     alert_level |-> level,
     priority |-> IF component \in DOMAIN alert_config.component_priorities
                  THEN alert_config.component_priorities[component]
                  ELSE 1,
     timestamp |-> current_time,
     message |-> generate_alert_message(component, level, probability),
     snoozed_until |-> {}]

\* the mutant: a component is evaluated whether or not it has a model
telemetry_step_no_model_check(st, component, outcome, current_time) ==
    IF outcome.raises THEN st
    ELSE LET level == determine_alert_level(outcome.probability,
                                             alert_config.alert_thresholds)
             ref == Len(st.alert_history) + 1
         IN  IF level # NoLevel
             THEN [current_alerts |-> DictSet(st.current_alerts, component, ref),
                   alert_history |->
                       Append(st.alert_history,
                              NewAlert(component, outcome.probability, level,
                                       current_time)),
                   alerts |-> Append(st.alerts, ref)]
             ELSE IF HasKey(st.current_alerts, component)
             THEN [st EXCEPT !.current_alerts = DictDel(@, component)]
             ELSE st

\* the mutant: a new alert inherits the snooze of the alert it replaces
telemetry_step_keeps_snooze(st, component, outcome, current_time) ==
    IF component \notin models THEN st
    ELSE IF outcome.raises THEN st
    ELSE LET level == determine_alert_level(outcome.probability,
                                             alert_config.alert_thresholds)
             ref == Len(st.alert_history) + 1
             alert == NewAlert(component, outcome.probability, level,
                               current_time)
         IN  IF level # NoLevel
             THEN [current_alerts |-> DictSet(st.current_alerts, component, ref),
                   alert_history |->
                       Append(st.alert_history,
                              IF HasKey(st.current_alerts, component)
                              THEN [alert EXCEPT !.snoozed_until =
                                       st.alert_history[
                                           st.current_alerts[
                                               KeyIndex(st.current_alerts,
                                                        component)].ref]
                                           .snoozed_until]
                              ELSE alert),
                   alerts |-> Append(st.alerts, ref)]
             ELSE IF HasKey(st.current_alerts, component)
             THEN [st EXCEPT !.current_alerts = DictDel(@, component)]
             ELSE st

\* the mutant: an evaluation that raises takes the component out of the
\* current alerts
telemetry_step_error_clears(st, component, outcome, current_time) ==
    IF component \notin models THEN st
    ELSE IF outcome.raises
    THEN [st EXCEPT !.current_alerts = DictDel(@, component)]
    ELSE LET level == determine_alert_level(outcome.probability,
                                             alert_config.alert_thresholds)
             ref == Len(st.alert_history) + 1
         IN  IF level # NoLevel
             THEN [current_alerts |-> DictSet(st.current_alerts, component, ref),
                   alert_history |->
                       Append(st.alert_history,
                              NewAlert(component, outcome.probability, level,
                                       current_time)),
                   alerts |-> Append(st.alerts, ref)]
             ELSE IF HasKey(st.current_alerts, component)
             THEN [st EXCEPT !.current_alerts = DictDel(@, component)]
             ELSE st

\* the body of the for loop of process_telemetry_data for one component;
\* st = [current_alerts, alert_history, alerts]
telemetry_step(st, component, outcome, current_time) ==
    IF component \notin models THEN st
    ELSE IF outcome.raises THEN st
    ELSE LET level == determine_alert_level(outcome.probability,
                                             alert_config.alert_thresholds)
             ref == Len(st.alert_history) + 1
         IN  IF level # NoLevel
             THEN [current_alerts |-> DictSet(st.current_alerts, component, ref),
                   alert_history |->
                       Append(st.alert_history,
                              NewAlert(component, outcome.probability, level,
                                       current_time)),
                   alerts |-> Append(st.alerts, ref)]
             ELSE IF HasKey(st.current_alerts, component)
             THEN [st EXCEPT !.current_alerts = DictDel(@, component)]
             ELSE st

\* the for loop of process_telemetry_data
RECURSIVE telemetry_loop(_, _, _)
telemetry_loop(st, telemetry_data, current_time) ==
    IF telemetry_data = <<>> THEN st
    ELSE telemetry_loop(
             telemetry_step(st, Head(telemetry_data).component,
                            Head(telemetry_data).outcome, current_time),
             Tail(telemetry_data), current_time)

\* VehicleAlertSystem.process_telemetry_data (one evaluation cycle)
process_telemetry_data(telemetry_data) ==
    LET st == telemetry_loop([current_alerts |-> current_alerts,
                              alert_history |-> alert_history,
                              alerts |-> <<>>],
                             telemetry_data, now)
    IN  /\ Len(st.alert_history) <= MaxHistory
        /\ current_alerts' = st.current_alerts
        /\ alert_history' = st.alert_history
        /\ ret' = [op |-> "process_telemetry_data",
                   arg |-> telemetry_data,
                   result |-> sorted(st.alerts, st.alert_history)]
        /\ UNCHANGED <<now, models, alert_config, mobile_vars, loop_vars>>

\* the mutant: the call reports success also when there is no current alert
snooze_alert_always_true(component) ==
    /\ IF HasKey(current_alerts, component)
       THEN alert_history' =
                [alert_history EXCEPT
                    ![current_alerts[KeyIndex(current_alerts, component)].ref]
                        .snoozed_until =
                        {now + alert_config.notification_settings.snooze_duration_minutes}]
       ELSE alert_history' = alert_history
    /\ ret' = [op |-> "snooze_alert", arg |-> component, result |-> TRUE]
    /\ UNCHANGED <<now, models, alert_config, current_alerts, mobile_vars, loop_vars>>

\* the mutant: a snoozed alert is taken out of the current alerts
snooze_alert_dismiss(component) ==
    /\ IF HasKey(current_alerts, component)
       THEN /\ alert_history' =
                   [alert_history EXCEPT
                       ![current_alerts[KeyIndex(current_alerts, component)].ref]
                           .snoozed_until =
                           {now + alert_config.notification_settings.snooze_duration_minutes}]
            /\ current_alerts' = DictDel(current_alerts, component)
            /\ ret' = [op |-> "snooze_alert", arg |-> component, result |-> TRUE]
       ELSE /\ alert_history' = alert_history
            /\ current_alerts' = current_alerts
            /\ ret' = [op |-> "snooze_alert", arg |-> component, result |-> FALSE]
    /\ UNCHANGED <<now, models, alert_config, mobile_vars, loop_vars>>

\* VehicleAlertSystem.snooze_alert
snooze_alert(component) ==
    /\ IF HasKey(current_alerts, component)
       THEN LET ref == current_alerts[KeyIndex(current_alerts, component)].ref
                snooze_minutes ==
                    alert_config.notification_settings.snooze_duration_minutes
            IN  /\ alert_history' =
                       [alert_history EXCEPT
                           ![ref].snoozed_until = {now + snooze_minutes}]
                /\ ret' = [op |-> "snooze_alert", arg |-> component,
                           result |-> TRUE]
       ELSE /\ alert_history' = alert_history
            /\ ret' = [op |-> "snooze_alert", arg |-> component,
                       result |-> FALSE]
    /\ UNCHANGED <<now, models, alert_config, current_alerts, mobile_vars, loop_vars>>

\* timedelta(days=1), in minutes
DayMinutes == 1440

\* the mutant: an entry recorded exactly at the cutoff is returned too
get_alert_history_inclusive(days) ==
    LET cutoff_time == now - days * DayMinutes
    IN  SelectSeq([i \in 1 .. Len(alert_history) |-> i],
                  LAMBDA ref : alert_history[ref].timestamp >= cutoff_time)

\* VehicleAlertSystem.get_alert_history: the alert objects of the list
\* comprehension, as their places in alert_history
get_alert_history(days) ==
    LET cutoff_time == now - days * DayMinutes
    IN  SelectSeq([i \in 1 .. Len(alert_history) |-> i],
                  LAMBDA ref : alert_history[ref].timestamp > cutoff_time)

\* the documents update_alert_config is called with
NewAlertConfigs == {[alert_thresholds |-> th] : th \in ThresholdChoices}

\* VehicleAlertSystem.update_alert_config: dict.update, then the save to the
\* file, whose failure makes the call return False with the update in place
update_alert_config(new_config, saved) ==
    /\ alert_config' = new_config @@ alert_config
    /\ ret' = [op |-> "update_alert_config", arg |-> <<>>, result |-> saved]
    /\ UNCHANGED <<now, models, current_alerts, alert_history, mobile_vars, loop_vars>>

---------------------------------------------------------------------------
(* MobileAlertSystem: configuration *)

\* _create_default_config, "notification_settings"
DefaultNotificationSettings ==
    [enable_mobile_alerts |-> TRUE,
     high_priority_cooldown_minutes |-> 30,
     medium_priority_cooldown_minutes |-> 120,
     low_priority_cooldown_minutes |-> 360,
     quiet_hours_start |-> 22,
     quiet_hours_end |-> 7,
     respect_quiet_hours |-> TRUE,
     override_quiet_hours_for_high_priority |-> TRUE]

\* _create_default_config, "notification_services"
DefaultNotificationServices ==
    [use_firebase |-> FALSE, use_sms |-> FALSE, use_email |-> FALSE]

\* _create_default_config
DefaultMobileConfig ==
    [notification_settings |-> DefaultNotificationSettings,
     notification_services |-> DefaultNotificationServices]

\* "notification_settings" documents of a configuration file or of
\* update_config: the default, the default without the override for high
\* priority, and one that ignores quiet hours and has shorter cooldowns
NoOverrideSettings ==
    [DefaultNotificationSettings EXCEPT
        !.override_quiet_hours_for_high_priority = FALSE]

NoQuietHoursSettings ==
    [DefaultNotificationSettings EXCEPT
        !.respect_quiet_hours = FALSE,
        !.high_priority_cooldown_minutes = 60,
        !.low_priority_cooldown_minutes = 180]

SettingsChoices ==
    {DefaultNotificationSettings, NoOverrideSettings, NoQuietHoursSettings}

\* "notification_services" documents: no channel (the default), and SMS
SmsOnly == [DefaultNotificationServices EXCEPT !.use_sms = TRUE]

ServicesChoices == {DefaultNotificationServices, SmsOnly}

\* the configuration files of the runs
MobileConfigs ==
    {DefaultMobileConfig,
     [notification_settings |-> NoOverrideSettings,
      notification_services |-> SmsOnly],
     [notification_settings |-> NoQuietHoursSettings,
      notification_services |-> SmsOnly]}

Channels == {"push", "sms", "email"}

\* what the channel collaborators return for one alert, if they are called
ChannelResults == [Channels -> BOOLEAN]

---------------------------------------------------------------------------
(* MobileAlertSystem: the notification gate *)

\* datetime.hour
Hour(current_time) == (current_time \div 60) % 24

\* the mutant: a window that crosses midnight is treated like one that does not
check_quiet_hours_nowrap(current_time, cfg) ==
    IF ~cfg.notification_settings.respect_quiet_hours THEN FALSE
    ELSE LET quiet_start == cfg.notification_settings.quiet_hours_start
             quiet_end == cfg.notification_settings.quiet_hours_end
             current_hour == Hour(current_time)
         IN  current_hour >= quiet_start /\ current_hour < quiet_end

\* MobileAlertSystem._check_quiet_hours
check_quiet_hours(current_time, cfg) ==
    IF ~cfg.notification_settings.respect_quiet_hours THEN FALSE
    ELSE LET quiet_start == cfg.notification_settings.quiet_hours_start
             quiet_end == cfg.notification_settings.quiet_hours_end
             current_hour == Hour(current_time)
         IN  IF quiet_start > quiet_end
             THEN current_hour >= quiet_start \/ current_hour < quiet_end
             ELSE current_hour >= quiet_start /\ current_hour < quiet_end

\* the mutant: the cooldown of high priority is used for every level
cooldown_minutes_always_high(level, cfg) ==
    cfg.notification_settings.high_priority_cooldown_minutes

\* the cooldown duration _should_send_alert picks for a level
cooldown_minutes(level, cfg) ==
    IF level = "high"
    THEN cfg.notification_settings.high_priority_cooldown_minutes
    ELSE IF level = "medium"
    THEN cfg.notification_settings.medium_priority_cooldown_minutes
    ELSE cfg.notification_settings.low_priority_cooldown_minutes

\* the mutant: only a new high alert counts as an escalation
is_escalation_high_only(level, last_level) ==
    level = "high" /\ last_level # "high"

\* the escalation test of _should_send_alert
is_escalation(level, last_level) ==
    \/ level = "high" /\ last_level # "high"
    \/ level = "medium" /\ last_level = "low"

\* the mutant: the override lets every level through, not only high
quiet_hours_suppress_any_level(level, in_quiet_hours, cfg) ==
    /\ in_quiet_hours
    /\ ~cfg.notification_settings.override_quiet_hours_for_high_priority

\* the quiet-hours test of _should_send_alert
quiet_hours_suppress(level, in_quiet_hours, cfg) ==
    /\ in_quiet_hours
    /\ ~(/\ level = "high"
         /\ cfg.notification_settings.override_quiet_hours_for_high_priority)

\* the mutant: the cooldown must be strictly over
should_send_alert_strict(component, level, current_time, in_quiet_hours, history, cfg) ==
    IF quiet_hours_suppress(level, in_quiet_hours, cfg) THEN FALSE
    ELSE IF component \in DOMAIN history
    THEN LET last_alert == history[component]
         IN  IF is_escalation(level, last_alert.level) THEN TRUE
             ELSE current_time > last_alert.sent_time + cooldown_minutes(level, cfg)
    ELSE TRUE

\* the mutant: without a record only a high alert is sent
should_send_alert_no_bootstrap(component, level, current_time, in_quiet_hours, history, cfg) ==
    IF quiet_hours_suppress(level, in_quiet_hours, cfg) THEN FALSE
    ELSE IF component \in DOMAIN history
    THEN LET last_alert == history[component]
         IN  IF is_escalation(level, last_alert.level) THEN TRUE
             ELSE current_time >= last_alert.sent_time + cooldown_minutes(level, cfg)
    ELSE level = "high"

\* the mutant: once a component has a record, only an escalation is admitted
should_send_alert_once(component, level, current_time, in_quiet_hours, history, cfg) ==
    IF quiet_hours_suppress(level, in_quiet_hours, cfg) THEN FALSE
    ELSE IF component \in DOMAIN history
    THEN is_escalation(level, history[component].level)
    ELSE TRUE

\* MobileAlertSystem._should_send_alert; history is self.alert_history
should_send_alert(component, level, current_time, in_quiet_hours, history, cfg) ==
    IF quiet_hours_suppress(level, in_quiet_hours, cfg) THEN FALSE
    ELSE IF component \in DOMAIN history
    THEN LET last_alert == history[component]
             sent_time == last_alert.sent_time
             last_level == last_alert.level
         IN  IF is_escalation(level, last_level) THEN TRUE
             ELSE current_time >= sent_time + cooldown_minutes(level, cfg)
    ELSE TRUE

---------------------------------------------------------------------------
(* MobileAlertSystem: dispatch *)

\* MobileAlertSystem._send_notification: the channels it calls, in order, and
\* the value of its local variable success at the end ("success or send()"
\* does not call send() once success is true); results are the channels'
\* answers.  The method itself returns nothing.
send_notification(results, cfg, fb_initialized) ==
    LET services == cfg.notification_services
        use_push == services.use_firebase /\ fb_initialized
        any_service_enabled == use_push \/ services.use_sms \/ services.use_email
        after_push == IF use_push THEN results["push"] ELSE FALSE
        call_sms == services.use_sms /\ ~after_push
        after_sms == IF services.use_sms
                     THEN after_push \/ results["sms"] ELSE after_push
        call_email == services.use_email /\ ~after_sms
        after_email == IF services.use_email
                       THEN after_sms \/ results["email"] ELSE after_sms
    IN  IF any_service_enabled
        THEN [attempted |-> (IF use_push THEN <<"push">> ELSE <<>>)
                            \o (IF call_sms THEN <<"sms">> ELSE <<>>)
                            \o (IF call_email THEN <<"email">> ELSE <<>>),
              success |-> after_email]
        ELSE [attempted |-> <<>>, success |-> FALSE]

\* the record _process_alerts stores for a component
NotificationRecord(alert, current_time) ==
    [level |-> alert.alert_level,
     sent_time |-> current_time,
     message |-> alert.message]

\* the body of the for loop of _process_alerts for one alert;
\* st = [history, sends]
process_alert_step(st, alert, current_time, in_quiet_hours, results) ==
    IF should_send_alert(alert.component, alert.alert_level, current_time,
                         in_quiet_hours, st.history, config)
    THEN [history |-> (alert.component :> NotificationRecord(alert, current_time))
                          @@ st.history,
          sends |-> Append(st.sends,
                           [component |-> alert.component,
                            level |-> alert.alert_level,
                            sent |-> send_notification(results, config,
                                                       firebase_initialized)])]
    ELSE st

\* the for loop of _process_alerts; delivers maps a component to the answers
\* of the channels for its alert
RECURSIVE process_alerts_loop(_, _, _, _, _)
process_alerts_loop(st, alerts, current_time, in_quiet_hours, delivers) ==
    IF alerts = <<>> THEN st
    ELSE LET alert == alert_history[Head(alerts)]
         IN  process_alerts_loop(
                 process_alert_step(st, alert, current_time, in_quiet_hours,
                                    delivers[alert.component]),
                 Tail(alerts), current_time, in_quiet_hours, delivers)

\* the channel answers that can differ: a channel that is not enabled is never
\* called
Delivers ==
    {d \in [models -> ChannelResults] :
        \A c \in models :
            /\ d[c]["push"] =>
                   config.notification_services.use_firebase /\ firebase_initialized
            /\ d[c]["sms"] => config.notification_services.use_sms
            /\ d[c]["email"] => config.notification_services.use_email
            /\ (\E ch \in Channels : d[c][ch]) => HasKey(current_alerts, c)}

\* the mutant: a dispatch cycle drops the records of the components that have
\* no current alert
process_alerts_prune(delivers) ==
    LET alerts == get_current_alerts
        current_time == now
        in_quiet_hours == check_quiet_hours(current_time, config)
        st == process_alerts_loop([history |-> mobile_alert_history,
                                   sends |-> <<>>],
                                  alerts, current_time, in_quiet_hours, delivers)
    IN  /\ mobile_alert_history' =
               [c \in {k \in DOMAIN st.history : HasKey(current_alerts, k)}
                   |-> st.history[c]]
        /\ ret' = [op |-> "process_alerts", arg |-> alerts, result |-> st.sends,
                   records |-> mobile_alert_history]
        /\ UNCHANGED <<now, vehicle_vars, config, firebase_initialized, loop_vars>>

\* MobileAlertSystem._process_alerts on get_current_alerts(): one cycle of
\* MobileAlertSystem._monitoring_loop
process_alerts(delivers) ==
    LET alerts == get_current_alerts
        current_time == now
        in_quiet_hours == check_quiet_hours(current_time, config)
        st == process_alerts_loop([history |-> mobile_alert_history,
                                   sends |-> <<>>],
                                  alerts, current_time, in_quiet_hours, delivers)
    IN  /\ mobile_alert_history' = st.history
        /\ ret' = [op |-> "process_alerts", arg |-> alerts, result |-> st.sends,
                   records |-> mobile_alert_history]
        /\ UNCHANGED <<now, vehicle_vars, config, firebase_initialized, loop_vars>>

\* the documents update_config is called with
NewMobileConfigs ==
    {[notification_settings |-> ns] : ns \in SettingsChoices}
        \cup {[notification_services |-> sv] : sv \in ServicesChoices}

\* MobileAlertSystem.update_config: dict.update, then the save to the file
update_config(new_config, saved) ==
    /\ config' = new_config @@ config
    /\ ret' = [op |-> "update_config", arg |-> new_config, result |-> saved]
    /\ UNCHANGED <<now, vehicle_vars, firebase_initialized, mobile_alert_history, loop_vars>>

---------------------------------------------------------------------------
(* The system: both objects, their callers and the clock *)

\* the run starts at 21:00, one hour before the default quiet hours
StartTime == 21 * 60

\* minutes between two observations of the clock
TickMinutes == 60

\* time passes
Tick ==
    /\ now < StartTime + MaxTicks * TickMinutes
    /\ now' = now + TickMinutes
    /\ UNCHANGED <<vehicle_vars, mobile_vars, ret, loop_vars>>

\* DriverAlertInterface.__init__: running is False and there is no thread; pc
\* is the place of the monitoring thread, telemetry_data, done and alerts are
\* the batch of its evaluation cycle, the number of components the for loop
\* of process_telemetry_data has gone through, and the loop's list alerts
DriverNotStarted ==
    [running |-> FALSE, pc |-> "idle", telemetry_data |-> <<>>, done |-> 0,
     alerts |-> <<>>]

\* MobileAlertSystem before start_monitoring: no thread
MonitorNotStarted == [running |-> FALSE, pc |-> "idle"]

\* the input thread is in no call of snooze_alert
NoCall == [pc |-> "idle", component |-> ""]

\* no monitoring loop has been started
InitLoops ==
    /\ driver = DriverNotStarted
    /\ monitor = MonitorNotStarted
    /\ input = NoCall
    /\ second = [pc |-> "idle"]

\* the components whose model and scaler files _load_models finds and loads:
\* all of them, or all but one
LoadedModels == {Components, {"engine"}}

\* VehicleAlertSystem.__init__ with the alert configuration file's content
\* (or the default) and the models that could be loaded: no alert yet
InitVehicle(file_config, loaded) ==
    /\ now = StartTime
    /\ models = loaded
    /\ alert_config = file_config
    /\ current_alerts = <<>>
    /\ alert_history = <<>>
    /\ ret = [op |-> "init", arg |-> <<>>, result |-> <<>>]
    /\ InitLoops

\* the default alert configuration with other thresholds
WithThresholds(th) == [DefaultAlertConfig EXCEPT !.alert_thresholds = th]

\* MobileAlertSystem.__init__: the mobile configuration file's content (or the
\* default); Firebase is initialised only if the configuration enables it
InitMobile ==
    /\ config \in MobileConfigs
    /\ firebase_initialized \in
           IF config.notification_services.use_firebase THEN BOOLEAN ELSE {FALSE}
    /\ mobile_alert_history = [c \in {} |-> {}]

\* the alert system alone, with the mobile system constructed and not started
Init ==
    /\ \E th \in ThresholdChoices, loaded \in LoadedModels :
           InitVehicle(WithThresholds(th), loaded)
    /\ config = DefaultMobileConfig
    /\ firebase_initialized = FALSE
    /\ mobile_alert_history = [c \in {} |-> {}]

Next ==
    \/ \E telemetry_data \in TelemetryBatches :
           process_telemetry_data(telemetry_data)
    \/ \E component \in Components : snooze_alert(component)
    \/ \E new_config \in NewAlertConfigs, saved \in BOOLEAN :
           update_alert_config(new_config, saved)

Spec == Init /\ [][Next]_vars

---------------------------------------------------------------------------
(* The alert system evaluated under its default thresholds, and the mobile   *)
(* system's dispatch cycles, as the clock advances                           *)

\* the telemetry of these runs: under the default thresholds no alert, a
\* medium and a high alert
DispatchBatches ==
    Batches(Components, [raises : {FALSE}, probability : {10, 50, 80}])

InitDispatch ==
    /\ InitVehicle(DefaultAlertConfig, Components)
    /\ InitMobile

NextDispatch ==
    \/ Tick
    \/ \E telemetry_data \in DispatchBatches :
           process_telemetry_data(telemetry_data)
    \/ \E delivers \in Delivers : process_alerts(delivers)

SpecDispatch == InitDispatch /\ [][NextDispatch]_vars

---------------------------------------------------------------------------
(* _determine_alert_level called on its own: two calls in a row under one   *)
(* threshold configuration, any three thresholds, ordered or not             *)

ThresholdGrid == {20, 40, 70}

ClassifyProbabilities ==
    {0, 10, 19, 20, 21, 25, 39, 40, 41, 50, 69, 70, 71, 75, 100}

InitClassify ==
    /\ \E th \in [high : ThresholdGrid, medium : ThresholdGrid,
                   low : ThresholdGrid] :
           InitVehicle(WithThresholds(th), Components)
    /\ config = DefaultMobileConfig
    /\ firebase_initialized = FALSE
    /\ mobile_alert_history = [c \in {} |-> {}]

\* self._determine_alert_level(p1), then self._determine_alert_level(p2)
determine_alert_level_calls(p1, p2) ==
    /\ ret' = [op |-> "determine_alert_level",
               arg |-> <<p1, p2>>,
               result |-> <<determine_alert_level(p1, alert_config.alert_thresholds),
                            determine_alert_level(p2, alert_config.alert_thresholds)>>]
    /\ UNCHANGED <<now, vehicle_vars, mobile_vars, loop_vars>>

NextClassify ==
    \E p1 \in ClassifyProbabilities, p2 \in ClassifyProbabilities :
        determine_alert_level_calls(p1, p2)

SpecClassify == InitClassify /\ [][NextClassify]_vars

---------------------------------------------------------------------------
(* _should_send_alert called on its own, on any notification records        *)

\* the times of the records and of the calls, from the start of the run
GateOffsets == {0, 30, 60, 120, 121, 180, 360}

\* the records _process_alerts can have written
GateRecords ==
    [level : Levels,
     sent_time : {StartTime, StartTime + 60},
     message : {<<>>}]

GateHistories ==
    UNION {[cs -> GateRecords] : cs \in SUBSET Components}

InitGate ==
    /\ InitVehicle(DefaultAlertConfig, Components)
    /\ config \in {[DefaultMobileConfig EXCEPT !.notification_settings = ns] :
                      ns \in SettingsChoices}
    /\ firebase_initialized = FALSE
    /\ mobile_alert_history \in GateHistories

\* self._should_send_alert(component, level, current_time, in_quiet_hours)
should_send_alert_call(component, level, current_time, in_quiet_hours) ==
    /\ ret' = [op |-> "should_send_alert",
               arg |-> [component |-> component, level |-> level,
                        current_time |-> current_time,
                        in_quiet_hours |-> in_quiet_hours],
               result |-> should_send_alert(component, level, current_time,
                                            in_quiet_hours,
                                            mobile_alert_history, config)]
    /\ UNCHANGED <<now, vehicle_vars, mobile_vars, loop_vars>>

NextGate ==
    \E component \in Components, level \in Levels, offset \in GateOffsets,
       in_quiet_hours \in BOOLEAN :
        should_send_alert_call(component, level, StartTime + offset,
                               in_quiet_hours)

SpecGate == InitGate /\ [][NextGate]_vars

---------------------------------------------------------------------------
(* Properties of the notification gate (SpecGate) *)

\* the cooldown the configuration gives a level
ConfiguredCooldown(level) ==
    CASE level = "high" ->
             config.notification_settings.high_priority_cooldown_minutes
      [] level = "medium" ->
             config.notification_settings.medium_priority_cooldown_minutes
      [] level = "low" ->
             config.notification_settings.low_priority_cooldown_minutes

\* quiet hours suppress the alert of the last call: they are active, and the
\* alert is not a high one let through by the override
QuietHoursSuppressCall ==
    /\ ret.arg.in_quiet_hours
    /\ ~(/\ ret.arg.level = "high"
         /\ config.notification_settings.override_quiet_hours_for_high_priority)

\* the last call was made for a component that has a notification record
CallHasRecord ==
    /\ ret.op = "should_send_alert"
    /\ ret.arg.component \in DOMAIN mobile_alert_history

\* the record of the component of the last call
CallRecord == mobile_alert_history[ret.arg.component]

\* C1: for a component with a notification record, when quiet hours do not
\* suppress the alert and its level is not strictly higher than the last-sent
\* level, _should_send_alert admits it if and only if
\* now >= last sent_time + the configured cooldown of the alert's level; with a
\* 120-minute medium cooldown a Medium alert is suppressed 60 minutes after the
\* last send and admitted 121 minutes after it.
C1_CooldownDecision ==
    (/\ CallHasRecord
     /\ ~QuietHoursSuppressCall
     /\ LevelRank(ret.arg.level) <= LevelRank(CallRecord.level))
    => /\ ret.result <=>
              (ret.arg.current_time >=
                  CallRecord.sent_time + ConfiguredCooldown(ret.arg.level))
       /\ (/\ ret.arg.level = "medium"
           /\ ConfiguredCooldown("medium") = 120
           /\ ret.arg.current_time = CallRecord.sent_time + 60)
          => ~ret.result
       /\ (/\ ret.arg.level = "medium"
           /\ ConfiguredCooldown("medium") = 120
           /\ ret.arg.current_time = CallRecord.sent_time + 121)
          => ret.result

\* C1's case: a Medium alert, 121 minutes after a Medium notification, with a
\* 120-minute cooldown, outside quiet hours, is admitted
C1_Witness ==
    /\ CallHasRecord
    /\ ~ret.arg.in_quiet_hours
    /\ ret.arg.level = "medium"
    /\ CallRecord.level = "medium"
    /\ ConfiguredCooldown("medium") = 120
    /\ ret.arg.current_time = CallRecord.sent_time + 121
    /\ ret.result

\* C2: outside quiet hours, an alert whose level is strictly higher than the
\* level of the component's notification record (Low < Medium < High) is
\* admitted for every elapsed time, zero included, whatever the cooldowns are.
C2_EscalationBypass ==
    (/\ CallHasRecord
     /\ ~ret.arg.in_quiet_hours
     /\ LevelRank(ret.arg.level) > LevelRank(CallRecord.level))
    => ret.result

\* C2's case: a Medium alert right after a Low notification, no time elapsed,
\* is admitted although the cooldown of Medium has not run out
C2_Witness ==
    /\ CallHasRecord
    /\ ~ret.arg.in_quiet_hours
    /\ ret.arg.level = "medium"
    /\ CallRecord.level = "low"
    /\ ret.arg.current_time = CallRecord.sent_time
    /\ ConfiguredCooldown("medium") > 0
    /\ ret.result

\* the last call was made for a component without a notification record
CallHasNoRecord ==
    /\ ret.op = "should_send_alert"
    /\ ret.arg.component \notin DOMAIN mobile_alert_history

\* C4 as stated: without a notification record the gate always admits the
\* alert, for every level and every time of day, quiet hours active or not.
C4_BootstrapAlwaysAdmits ==
    CallHasNoRecord => ret.result

\* C4, amended: without a notification record the gate admits the alert
\* exactly when quiet hours do not suppress it: always outside quiet hours,
\* and inside quiet hours only a High alert with the override enabled.
C4_BootstrapUnlessQuietHours ==
    CallHasNoRecord => (ret.result <=> ~QuietHoursSuppressCall)

\* C4's case: no record, quiet hours active, a High alert with the override:
\* admitted
C4_Witness ==
    /\ CallHasNoRecord
    /\ ret.arg.in_quiet_hours
    /\ ret.arg.level = "high"
    /\ config.notification_settings.override_quiet_hours_for_high_priority
    /\ ret.result

---------------------------------------------------------------------------
(* Properties of the classification (SpecClassify) *)

\* the level the claim gives probability p under thresholds th
ClaimedLevel(p, th) ==
    CASE p >= th.high -> "high"
      [] p < th.high /\ p >= th.medium -> "medium"
      [] p < th.high /\ p < th.medium /\ p >= th.low -> "low"
      [] OTHER -> NoLevel

\* C6: _determine_alert_level gives High if p >= high, else Medium if
\* p >= medium, else Low if p >= low, else no alert; a probability equal to a
\* threshold gets that threshold's level; with thresholds 0.7/0.4/0.2, 0.75 is
\* High, 0.5 is Medium, 0.25 is Low and 0.1 is no alert.
C6_Classification ==
    ret.op = "determine_alert_level" =>
        \A i \in 1 .. 2 :
            LET p == ret.arg[i]
                level == ret.result[i]
                th == alert_config.alert_thresholds
            IN  /\ level = ClaimedLevel(p, th)
                /\ th = DefaultAlertConfig.alert_thresholds =>
                       /\ p = 75 => level = "high"
                       /\ p = 50 => level = "medium"
                       /\ p = 25 => level = "low"
                       /\ p = 10 => level = NoLevel
                       /\ p = 70 => level = "high"
                       /\ p = 40 => level = "medium"
                       /\ p = 20 => level = "low"

\* C6's case: under the default thresholds a probability equal to the high
\* threshold is High and one equal to the low threshold is Low
C6_Witness ==
    /\ ret.op = "determine_alert_level"
    /\ alert_config.alert_thresholds = DefaultAlertConfig.alert_thresholds
    /\ ret.arg = <<70, 20>>
    /\ ret.result = <<"high", "low">>

\* C7: under one threshold configuration, p1 >= p2 implies
\* level(p1) >= level(p2) in the ordering None < Low < Medium < High.
C7_Monotonic ==
    (/\ ret.op = "determine_alert_level"
     /\ ret.arg[1] >= ret.arg[2])
    => LevelRank(ret.result[1]) >= LevelRank(ret.result[2])

\* C7's case: two calls with p1 > p2 that get different levels, under
\* thresholds that are not ordered
C7_Witness ==
    /\ ret.op = "determine_alert_level"
    /\ ~Ordered(alert_config.alert_thresholds)
    /\ ret.arg[1] > ret.arg[2]
    /\ LevelRank(ret.result[1]) > LevelRank(ret.result[2])
    /\ ret.result[2] # NoLevel

---------------------------------------------------------------------------
(* Properties of the dispatch cycles (SpecDispatch) *)

\* the hour of time t lies in the configured quiet-hours window, which wraps
\* across midnight when it starts after it ends
QuietHoursActive(t) ==
    LET settings == config.notification_settings
        hour == (t \div 60) % 24
    IN  /\ settings.respect_quiet_hours
        /\ IF settings.quiet_hours_start > settings.quiet_hours_end
           THEN hour >= settings.quiet_hours_start \/ hour < settings.quiet_hours_end
           ELSE settings.quiet_hours_start <= hour /\ hour < settings.quiet_hours_end

\* the components of the alerts the last dispatch cycle admitted
Admitted == {ret.result[i].component : i \in 1 .. Len(ret.result)}

\* C3: in a dispatch cycle inside the quiet-hours window no Medium or Low alert
\* is admitted, and a High alert only if override_quiet_hours_for_high_priority
\* is enabled; so no notification record with level Medium or Low has a
\* sent_time inside quiet hours.
C3_QuietHours ==
    /\ \A c \in DOMAIN mobile_alert_history :
           QuietHoursActive(mobile_alert_history[c].sent_time) =>
               /\ mobile_alert_history[c].level = "high"
               /\ config.notification_settings.override_quiet_hours_for_high_priority
    /\ ret.op = "process_alerts" =>
           \A i \in 1 .. Len(ret.result) :
               LET record == mobile_alert_history[ret.result[i].component]
               IN  /\ record.level = ret.result[i].level
                   /\ QuietHoursActive(record.sent_time) =>
                          /\ ret.result[i].level = "high"
                          /\ config.notification_settings.override_quiet_hours_for_high_priority

\* C3's case: a dispatch cycle inside quiet hours that admitted a High alert
\* and suppressed the Medium alert of another component
C3_Witness ==
    /\ ret.op = "process_alerts"
    /\ QuietHoursActive(now)
    /\ \E c \in Admitted :
           /\ mobile_alert_history[c].level = "high"
           /\ mobile_alert_history[c].sent_time = now
    /\ \E c \in Components \ Admitted :
           /\ HasKey(current_alerts, c)
           /\ CurrentAlert(c).alert_level = "medium"
           /\ c \notin DOMAIN mobile_alert_history

\* the notification record of a component, if there is one
RecordOf(c) ==
    IF c \in DOMAIN mobile_alert_history THEN {mobile_alert_history[c]} ELSE {}

\* C5: the notification record of a component is created or overwritten only
\* when a send for that component succeeded on at least one channel; when every
\* enabled channel fails, or no channel is enabled, the record is left as it was.
C5_RecordOnlyAfterSuccessfulSend ==
    [][\A c \in Components :
           RecordOf(c)' # RecordOf(c) =>
               /\ ret'.op = "process_alerts"
               /\ \E i \in 1 .. Len(ret'.result) :
                      /\ ret'.result[i].component = c
                      /\ ret'.result[i].sent.success]_vars

---------------------------------------------------------------------------
(* Properties of the alert system (Spec) *)

\* the entries of the last telemetry batch that were evaluated: the component
\* has a model and the prediction did not raise
Evaluated ==
    {i \in 1 .. Len(ret.arg) :
        /\ ret.arg[i].component \in models
        /\ ~ret.arg[i].outcome.raises}

\* the components get_current_alerts() returns, in its order
CurrentComponents ==
    [i \in 1 .. Len(get_current_alerts) |->
        alert_history[get_current_alerts[i]].component]

\* C8: at most one current alert per component; after an evaluation of a
\* component whose probability is below the low threshold the component is
\* absent from get_current_alerts(); an evaluation that qualifies replaces the
\* component's current alert.
C8_OneCurrentAlertAndRecovery ==
    /\ \A i, j \in 1 .. Len(CurrentComponents) :
           CurrentComponents[i] = CurrentComponents[j] => i = j
    /\ ret.op = "process_telemetry_data" =>
           \A i \in Evaluated :
               LET component == ret.arg[i].component
                   probability == ret.arg[i].outcome.probability
               IN  /\ probability < alert_config.alert_thresholds.low =>
                          \A j \in 1 .. Len(CurrentComponents) :
                              CurrentComponents[j] # component
                   /\ probability >= alert_config.alert_thresholds.low =>
                          /\ HasKey(current_alerts, component)
                          /\ CurrentAlert(component).probability = probability
                          /\ CurrentAlert(component).timestamp = now

\* the entries of a telemetry batch that qualify for an alert
Qualifying(telemetry_data) ==
    {i \in 1 .. Len(telemetry_data) :
        /\ telemetry_data[i].component \in models
        /\ ~telemetry_data[i].outcome.raises
        /\ ClaimedLevel(telemetry_data[i].outcome.probability,
                        alert_config.alert_thresholds) # NoLevel}

\* C9: history is append-only: every qualifying evaluation appends exactly one
\* entry, and no later operation (evaluation, recovery, snooze, config update)
\* changes a field of an entry or removes it: every earlier history is a prefix
\* of every later one.
C9_HistoryAppendOnly ==
    [][/\ Len(alert_history') >= Len(alert_history)
       /\ \A i \in 1 .. Len(alert_history) : alert_history'[i] = alert_history[i]
       /\ Len(alert_history') > Len(alert_history) =>
              /\ ret'.op = "process_telemetry_data"
              /\ Len(alert_history') - Len(alert_history) =
                     Cardinality(Qualifying(ret'.arg))]_vars

\* the current alerts, as alert objects
CurrentAlerts ==
    {alert_history[current_alerts[i].ref] : i \in 1 .. Len(current_alerts)}

\* C10 as stated: in every reachable state the level of every current alert
\* equals the classification of its probability under the current thresholds,
\* also after update_alert_config has changed the thresholds.
C10_LevelFollowsCurrentThresholds ==
    \A alert \in CurrentAlerts :
        alert.alert_level =
            ClaimedLevel(alert.probability, alert_config.alert_thresholds)

\* C10, amended: the level of an alert is the classification of its
\* probability under the thresholds in force at the evaluation that created
\* it, and no later operation, update_alert_config included, changes the level
\* or the probability of an alert that exists.
C10_LevelSetAtEvaluation ==
    [][/\ \A i \in 1 .. Len(alert_history) :
              /\ i <= Len(alert_history')
              /\ alert_history'[i].alert_level = alert_history[i].alert_level
              /\ alert_history'[i].probability = alert_history[i].probability
       /\ \A i \in Len(alert_history) + 1 .. Len(alert_history') :
              /\ alert_config' = alert_config
              /\ alert_history'[i].alert_level # NoLevel
              /\ alert_history'[i].alert_level =
                     ClaimedLevel(alert_history'[i].probability,
                                  alert_config.alert_thresholds)
       /\ \A i \in 1 .. Len(current_alerts') :
              current_alerts'[i].ref \in 1 .. Len(alert_history')]_vars

\* C10's case: update_alert_config has changed the thresholds and a current
\* alert keeps the level of its evaluation, which is not the classification of
\* its probability under the new thresholds
C10_Witness ==
    /\ ret.op = "update_alert_config"
    /\ Ordered(alert_config.alert_thresholds)
    /\ \E alert \in CurrentAlerts :
           /\ alert.alert_level = "medium"
           /\ ClaimedLevel(alert.probability, alert_config.alert_thresholds) = "low"

\* C11: snooze_alert(component) for a component without a current alert
\* returns False and changes nothing: current alerts, history and
\* configuration are unchanged.
C11_SnoozeWithoutAlert ==
    [][(/\ ret'.op = "snooze_alert"
        /\ ~HasKey(current_alerts, ret'.arg))
       => /\ ret'.result = FALSE
          /\ current_alerts' = current_alerts
          /\ alert_history' = alert_history
          /\ alert_config' = alert_config
          /\ models' = models]_vars

\* C11's case: snooze_alert has returned False for a component without a
\* current alert while another component has one
C11_Witness ==
    /\ ret.op = "snooze_alert"
    /\ ret.result = FALSE
    /\ ~HasKey(current_alerts, ret.arg)
    /\ \E c \in Components : HasKey(current_alerts, c)
    /\ \A i \in 1 .. Len(alert_history) : alert_history[i].snoozed_until = {}

\* C12: a successful snooze_alert(component) sets snoozed_until = now + the
\* configured snooze duration on that component's current alert and removes
\* nothing: get_current_alerts() returns the same components in the same
\* order, the history keeps its number of entries, and the alerts of all other
\* components are unchanged.
C12_SnoozeKeepsAlerts ==
    [][\A component \in Components :
           (/\ ret'.op = "snooze_alert"
            /\ ret'.arg = component
            /\ HasKey(current_alerts, component))
           => /\ ret'.result = TRUE
              /\ HasKey(current_alerts', component)
              /\ CurrentAlert(component)'.snoozed_until =
                     {now + alert_config.notification_settings.snooze_duration_minutes}
              /\ get_current_alerts' = get_current_alerts
              /\ CurrentComponents' = CurrentComponents
              /\ Len(alert_history') = Len(alert_history)
              /\ \A c \in Components \ {component} :
                     /\ HasKey(current_alerts', c) <=> HasKey(current_alerts, c)
                     /\ HasKey(current_alerts, c) =>
                            CurrentAlert(c)' = CurrentAlert(c)]_vars

\* C12's case: with two current alerts, the one of the second-ranked component
\* has been snoozed and both are still returned by get_current_alerts()
C12_Witness ==
    /\ ret.op = "snooze_alert"
    /\ ret.result = TRUE
    /\ Len(CurrentComponents) = 2
    /\ CurrentComponents[2] = ret.arg
    /\ CurrentAlert(ret.arg).snoozed_until =
           {now + alert_config.notification_settings.snooze_duration_minutes}
    /\ CurrentAlert(CurrentComponents[1]).snoozed_until = {}

\* C20: a component without a predictor is skipped in every cycle: it never
\* gets a current alert and never adds a history entry, and in the same cycle
\* every other component of the batch is evaluated and classified as usual.
C20_NoPredictorSkipped ==
    /\ \A c \in Components \ models :
           /\ ~HasKey(current_alerts, c)
           /\ \A i \in 1 .. Len(alert_history) : alert_history[i].component # c
    /\ ret.op = "process_telemetry_data" =>
           \A i \in Evaluated :
               LET component == ret.arg[i].component
                   probability == ret.arg[i].outcome.probability
                   level == ClaimedLevel(probability, alert_config.alert_thresholds)
               IN  IF level # NoLevel
                   THEN /\ HasKey(current_alerts, component)
                        /\ CurrentAlert(component).probability = probability
                        /\ CurrentAlert(component).alert_level = level
                        /\ \E j \in 1 .. Len(ret.result) :
                               alert_history[ret.result[j]] = CurrentAlert(component)
                   ELSE ~HasKey(current_alerts, component)

\* C20's case: a batch whose first component has no model and whose second
\* component qualified: only the second one got an alert
C20_Witness ==
    /\ ret.op = "process_telemetry_data"
    /\ Len(ret.arg) = 2
    /\ ret.arg[1].component \notin models
    /\ ~ret.arg[1].outcome.raises
    /\ determine_alert_level(ret.arg[1].outcome.probability,
                             alert_config.alert_thresholds) # NoLevel
    /\ ret.arg[2].component \in models
    /\ Len(ret.result) = 1
    /\ alert_history[ret.result[1]].component = ret.arg[2].component
    /\ ~HasKey(current_alerts, ret.arg[1].component)

---------------------------------------------------------------------------
(* The dispatch cycles with a driver who snoozes alerts                      *)
(* (DriverAlertInterface.handle_user_input, 'S' + component)                 *)

NextSnooze ==
    \/ NextDispatch
    \/ \E component \in Components : snooze_alert(component)

SpecSnooze == InitDispatch /\ [][NextSnooze]_vars

\* the current alert of component c has a snoozed_until in the future
SnoozeInEffect(c) ==
    /\ HasKey(current_alerts, c)
    /\ \E until \in CurrentAlert(c).snoozed_until : until > now

\* C13: while the snoozed_until of a component's current alert is present and
\* in the future, no dispatch cycle sends a notification or writes a
\* notification record for that component, and the alert stays current.
C13_SnoozedNotNotified ==
    [][\A c \in Components :
           (/\ SnoozeInEffect(c)
            /\ now' = now
            /\ ret'.op = "process_alerts")
           => /\ RecordOf(c)' = RecordOf(c)
              /\ \A i \in 1 .. Len(ret'.result) : ret'.result[i].component # c
              /\ HasKey(current_alerts', c)]_vars

---------------------------------------------------------------------------
(* The ranking: get_current_alerts called on any current alerts of three     *)
(* components, two of them of equal priority, the evaluations' results, and  *)
(* the dispatch cycles over the ranked alerts                                *)

RankComponents == {"engine", "brakes", "battery"}

RankProbabilities == {60, 80, 90}

\* the alert objects of one evaluation cycle at the start of the run, in the
\* order in which the cycle made them: one per component of the batch
RECURSIVE RankHistories(_)
RankHistories(cs) ==
    {<<>>} \cup
    UNION {{<<NewAlert(c, p,
                       determine_alert_level(p, DefaultAlertConfig.alert_thresholds),
                       StartTime)>> \o rest :
               p \in RankProbabilities, rest \in RankHistories(cs \ {c})} :
           c \in cs}

\* the state after one evaluation cycle over any batch
InitRank ==
    /\ now = StartTime
    /\ models = RankComponents
    /\ alert_config = DefaultAlertConfig
    /\ alert_history \in RankHistories(RankComponents)
    /\ current_alerts =
           [i \in 1 .. Len(alert_history) |->
               [key |-> alert_history[i].component, ref |-> i]]
    /\ ret = [op |-> "init", arg |-> <<>>, result |-> <<>>]
    /\ InitLoops
    /\ config = DefaultMobileConfig
    /\ firebase_initialized = FALSE
    /\ mobile_alert_history = [c \in {} |-> {}]

\* the telemetry of these runs: equal and different probabilities
RankBatches ==
    Batches(RankComponents, [raises : {FALSE}, probability : {60, 80}])

\* self.get_current_alerts(); arg is the dict's values in insertion order
get_current_alerts_call ==
    /\ ret' = [op |-> "get_current_alerts",
               arg |-> Values(current_alerts),
               result |-> get_current_alerts]
    /\ UNCHANGED <<now, vehicle_vars, mobile_vars, loop_vars>>

NextRank ==
    \/ get_current_alerts_call
    \/ \E telemetry_data \in RankBatches : process_telemetry_data(telemetry_data)
    \/ \E delivers \in Delivers : process_alerts(delivers)

SpecRank == InitRank /\ [][NextRank]_vars

\* the place of x in the list that was sorted: its index in the dict's values
\* for get_current_alerts; for process_telemetry_data the alerts were made,
\* and appended to the history, in the order of the list
InputPlace(x) ==
    IF ret.op = "get_current_alerts"
    THEN CHOOSE i \in 1 .. Len(ret.arg) : ret.arg[i] = x
    ELSE x

\* the components of a list of alert references
ComponentsOf(refs) == [i \in 1 .. Len(refs) |-> alert_history[refs[i]].component]

\* C14: get_current_alerts() and the result of process_telemetry_data() are a
\* permutation of the alerts concerned, by descending priority, then descending
\* probability, alerts equal on both keys in their original order;
\* (engine,5,0.6),(brakes,5,0.8),(battery,2,0.9) ranks brakes, engine, battery.
C14_Ranking ==
    ret.op \in {"get_current_alerts", "process_telemetry_data"} =>
        /\ \A i, j \in 1 .. Len(ret.result) :
               i < j =>
                   LET a == alert_history[ret.result[i]]
                       b == alert_history[ret.result[j]]
                   IN  \/ a.priority > b.priority
                       \/ a.priority = b.priority /\ a.probability > b.probability
                       \/ /\ a.priority = b.priority
                          /\ a.probability = b.probability
                          /\ InputPlace(ret.result[i]) < InputPlace(ret.result[j])
        /\ ret.op = "get_current_alerts" =>
               /\ Len(ret.result) = Len(ret.arg)
               /\ {ret.result[i] : i \in 1 .. Len(ret.result)} =
                      {ret.arg[i] : i \in 1 .. Len(ret.arg)}
               /\ (/\ ComponentsOf(ret.arg) = <<"engine", "brakes", "battery">>
                   /\ alert_history[ret.arg[1]].probability = 60
                   /\ alert_history[ret.arg[2]].probability = 80
                   /\ alert_history[ret.arg[3]].probability = 90)
                  => ComponentsOf(ret.result) = <<"brakes", "engine", "battery">>
        /\ ret.op = "process_telemetry_data" =>
               /\ Len(ret.result) = Len(ret.arg)
               /\ \A k \in 1 .. Len(ret.arg) :
                      \E i \in 1 .. Len(ret.result) :
                          /\ ComponentsOf(ret.result)[i] = ret.arg[k].component
                          /\ alert_history[ret.result[i]].probability =
                                 ret.arg[k].outcome.probability
               /\ \A i, j \in 1 .. Len(ret.result) :
                      ret.result[i] = ret.result[j] => i = j

\* C14's case: the worked example, three current alerts inserted in the order
\* engine 0.6, brakes 0.8, battery 0.9 and ranked brakes, engine, battery
C14_Witness ==
    /\ ret.op = "get_current_alerts"
    /\ ComponentsOf(ret.arg) = <<"engine", "brakes", "battery">>
    /\ alert_history[ret.arg[1]].probability = 60
    /\ alert_history[ret.arg[2]].probability = 80
    /\ alert_history[ret.arg[3]].probability = 90
    /\ ComponentsOf(ret.result) = <<"brakes", "engine", "battery">>

\* C15: within one dispatch cycle the alerts are gated and sent in ranked
\* order: if alert A ranks before alert B (higher priority, or equal priority
\* and higher probability) and both are admitted in the cycle, the send
\* attempt for A comes before the one for B.
C15_SendsInRankedOrder ==
    ret.op = "process_alerts" =>
        \A i, j \in 1 .. Len(ret.result) :
            LET a == CurrentAlert(ret.result[i].component)
                b == CurrentAlert(ret.result[j].component)
            IN  (\/ a.priority > b.priority
                 \/ a.priority = b.priority /\ a.probability > b.probability)
                => i < j

\* C15's case: a cycle admitted three alerts; brakes, made after engine, has
\* the same priority and a higher probability and was sent first, battery
\* with the highest probability and the lowest priority was sent last
C15_Witness ==
    /\ ret.op = "process_alerts"
    /\ ComponentsOf(Values(current_alerts)) = <<"battery", "engine", "brakes">>
    /\ CurrentAlert("brakes").probability > CurrentAlert("engine").probability
    /\ CurrentAlert("battery").probability > CurrentAlert("brakes").probability
    /\ [i \in 1 .. Len(ret.result) |-> ret.result[i].component] =
           <<"brakes", "engine", "battery">>

---------------------------------------------------------------------------
(* _send_notification called on its own, under every combination of enabled  *)
(* channels and every combination of channel answers                         *)

\* "notification_services" documents: every combination of the three switches
AllServices == [use_firebase : BOOLEAN, use_sms : BOOLEAN, use_email : BOOLEAN]

InitSend ==
    /\ InitVehicle(DefaultAlertConfig, Components)
    /\ config \in {[DefaultMobileConfig EXCEPT !.notification_services = sv] :
                      sv \in AllServices}
    /\ firebase_initialized \in
           IF config.notification_services.use_firebase THEN BOOLEAN ELSE {FALSE}
    /\ mobile_alert_history = [c \in {} |-> {}]

\* self._send_notification(alert), the channels answering results
send_notification_call(results) ==
    /\ ret' = [op |-> "send_notification",
               arg |-> results,
               result |-> send_notification(results, config, firebase_initialized)]
    /\ UNCHANGED <<now, vehicle_vars, mobile_vars, loop_vars>>

NextSend == \E results \in ChannelResults : send_notification_call(results)

SpecSend == InitSend /\ [][NextSend]_vars

\* the enabled channels, in the fixed order push, SMS, email
EnabledChannels ==
    SelectSeq(<<"push", "sms", "email">>,
              LAMBDA ch :
                  \/ /\ ch = "push"
                     /\ config.notification_services.use_firebase
                     /\ firebase_initialized
                  \/ ch = "sms" /\ config.notification_services.use_sms
                  \/ ch = "email" /\ config.notification_services.use_email)

\* C18: every enabled channel is attempted for an admitted alert, in the order
\* push, SMS, email, whatever the outcome of the channels before it, and the
\* overall result is success iff at least one channel succeeded.
C18_EveryEnabledChannelAttempted ==
    ret.op = "send_notification" =>
        /\ ret.result.attempted = EnabledChannels
        /\ ret.result.success <=>
               \E i \in 1 .. Len(EnabledChannels) : ret.arg[EnabledChannels[i]]

---------------------------------------------------------------------------
(* The two monitoring threads: DriverAlertInterface._monitoring_loop, which  *)
(* evaluates telemetry, and MobileAlertSystem._monitoring_loop, which        *)
(* dispatches notifications.  They share the VehicleAlertSystem and take no  *)
(* lock; a step of the evaluation thread is one iteration of the for loop of *)
(* process_telemetry_data.  The clock is held: the intervals of the loops    *)
(* are seconds.                                                              *)

\* what telemetry_source() returns in these runs
LoopBatches == Batches(Components, [raises : {FALSE}, probability : {10, 50}])

\* DriverAlertInterface.start_monitoring
driver_start_monitoring ==
    /\ driver.pc = "idle"
    /\ driver' = [driver EXCEPT !.running = TRUE, !.pc = "while"]
    /\ UNCHANGED <<now, vehicle_vars, mobile_vars, monitor, ret, other_threads>>

\* DriverAlertInterface.stop_monitoring: the flag is cleared; join(timeout=2.0)
\* returns when the thread has ended or after two seconds
driver_stop_monitoring ==
    /\ driver.running
    /\ driver' = [driver EXCEPT !.running = FALSE]
    /\ UNCHANGED <<now, vehicle_vars, mobile_vars, monitor, ret, other_threads>>

\* "while self.running:" of the evaluation thread, and telemetry_source(),
\* which returns a batch or raises
driver_while(telemetry_data, raises) ==
    /\ driver.pc = "while"
    /\ IF ~driver.running
       THEN driver' = [driver EXCEPT !.pc = "exited"]
       ELSE IF raises
       THEN driver' = [driver EXCEPT !.pc = "except"]
       ELSE /\ Len(telemetry_loop([current_alerts |-> current_alerts,
                                   alert_history |-> alert_history,
                                   alerts |-> <<>>],
                                  telemetry_data, now).alert_history) <= MaxHistory
            /\ driver' = [driver EXCEPT !.pc = "cycle",
                                         !.telemetry_data = telemetry_data,
                                         !.done = 0,
                                         !.alerts = <<>>]
    /\ UNCHANGED <<now, vehicle_vars, mobile_vars, monitor, ret, other_threads>>

\* one iteration of the for loop of process_telemetry_data in the thread
driver_step ==
    /\ driver.pc = "cycle"
    /\ driver.done < Len(driver.telemetry_data)
    /\ LET entry == driver.telemetry_data[driver.done + 1]
           st == telemetry_step([current_alerts |-> current_alerts,
                                 alert_history |-> alert_history,
                                 alerts |-> driver.alerts],
                                entry.component, entry.outcome, now)
       IN  /\ current_alerts' = st.current_alerts
           /\ alert_history' = st.alert_history
           /\ driver' = [driver EXCEPT !.done = @ + 1, !.alerts = st.alerts]
    /\ UNCHANGED <<now, models, alert_config, mobile_vars, monitor, ret, other_threads>>

\* the return of process_telemetry_data in the thread and the display of the
\* alerts, which raises or not; then time.sleep(interval), in the try block
\* or in the except block
driver_finish(raises) ==
    /\ driver.pc = "cycle"
    /\ driver.done = Len(driver.telemetry_data)
    /\ ret' = [op |-> "process_telemetry_data",
               arg |-> driver.telemetry_data,
               result |-> sorted(driver.alerts, alert_history)]
    /\ driver' = [driver EXCEPT !.pc = IF raises THEN "except" ELSE "sleep"]
    /\ UNCHANGED <<now, vehicle_vars, mobile_vars, monitor, other_threads>>

\* time.sleep(interval) of the evaluation thread returns
driver_sleep ==
    /\ driver.pc \in {"sleep", "except"}
    /\ driver' = [driver EXCEPT !.pc = "while"]
    /\ UNCHANGED <<now, vehicle_vars, mobile_vars, monitor, ret, other_threads>>

\* MobileAlertSystem.start_monitoring
monitor_start_monitoring ==
    /\ monitor.pc = "idle"
    /\ config.notification_settings.enable_mobile_alerts
    /\ monitor' = [monitor EXCEPT !.running = TRUE, !.pc = "while"]
    /\ UNCHANGED <<now, vehicle_vars, mobile_vars, driver, ret, other_threads>>

\* MobileAlertSystem.stop_monitoring
monitor_stop_monitoring ==
    /\ monitor.running
    /\ monitor' = [monitor EXCEPT !.running = FALSE]
    /\ UNCHANGED <<now, vehicle_vars, mobile_vars, driver, ret, other_threads>>

\* "while self.running:" of the dispatch thread
monitor_while ==
    /\ monitor.pc = "while"
    /\ monitor' = [monitor EXCEPT !.pc = IF monitor.running THEN "cycle"
                                         ELSE "exited"]
    /\ UNCHANGED <<now, vehicle_vars, mobile_vars, driver, ret, other_threads>>

\* one dispatch cycle of the thread: get_current_alerts() and _process_alerts;
\* if the send of the first alert raises, nothing is recorded and the except
\* block is entered
monitor_cycle(delivers, raises) ==
    /\ monitor.pc = "cycle"
    /\ LET alerts == get_current_alerts
           in_quiet_hours == check_quiet_hours(now, config)
           st == process_alerts_loop([history |-> mobile_alert_history,
                                      sends |-> <<>>],
                                     alerts, now, in_quiet_hours, delivers)
       IN  IF raises
           THEN /\ alerts # <<>>
                /\ should_send_alert(alert_history[Head(alerts)].component,
                                     alert_history[Head(alerts)].alert_level,
                                     now, in_quiet_hours, mobile_alert_history,
                                     config)
                /\ mobile_alert_history' = mobile_alert_history
                /\ ret' = [op |-> "process_alerts", arg |-> alerts,
                           result |-> <<>>,
                           records |-> mobile_alert_history]
                /\ monitor' = [monitor EXCEPT !.pc = "except"]
           ELSE /\ mobile_alert_history' = st.history
                /\ ret' = [op |-> "process_alerts", arg |-> alerts,
                           result |-> st.sends,
                           records |-> mobile_alert_history]
                /\ monitor' = [monitor EXCEPT !.pc = "sleep"]
    /\ UNCHANGED <<now, vehicle_vars, config, firebase_initialized, driver, other_threads>>

\* the mutant: the except block ends the loop
monitor_sleep_ends_on_exception ==
    /\ monitor.pc \in {"sleep", "except"}
    /\ monitor' = [monitor EXCEPT !.pc = IF monitor.pc = "except" THEN "exited"
                                         ELSE "while"]
    /\ UNCHANGED <<now, vehicle_vars, mobile_vars, driver, ret, other_threads>>

\* time.sleep(interval) of the dispatch thread returns
monitor_sleep ==
    /\ monitor.pc \in {"sleep", "except"}
    /\ monitor' = [monitor EXCEPT !.pc = "while"]
    /\ UNCHANGED <<now, vehicle_vars, mobile_vars, driver, ret, other_threads>>

\* a thread that has been started and has not left its loop
Alive(thread) == thread.pc \in {"while", "cycle", "sleep", "except"}

\* main() returns after its finally block has called both stop_monitoring:
\* the interpreter exits, and the threads, which are daemon threads, end
\* wherever they are
exit ==
    /\ ~driver.running
    /\ ~monitor.running
    /\ Alive(driver) \/ Alive(monitor)
    /\ driver' = [driver EXCEPT !.pc = IF Alive(driver) THEN "killed" ELSE @]
    /\ monitor' = [monitor EXCEPT !.pc = IF Alive(monitor) THEN "killed" ELSE @]
    /\ UNCHANGED <<now, vehicle_vars, mobile_vars, ret, other_threads>>

NextLoops ==
    \/ driver_start_monitoring
    \/ driver_stop_monitoring
    \/ \E telemetry_data \in LoopBatches, raises \in BOOLEAN :
           driver_while(telemetry_data, raises)
    \/ driver_step
    \/ \E raises \in BOOLEAN : driver_finish(raises)
    \/ driver_sleep
    \/ monitor_start_monitoring
    \/ monitor_stop_monitoring
    \/ monitor_while
    \/ \E delivers \in Delivers, raises \in BOOLEAN :
           monitor_cycle(delivers, raises)
    \/ monitor_sleep
    \/ exit

InitLoopsSystem ==
    /\ InitVehicle(DefaultAlertConfig, Components)
    /\ config = DefaultMobileConfig
    /\ firebase_initialized = FALSE
    /\ mobile_alert_history = [c \in {} |-> {}]

SpecLoops == InitLoopsSystem /\ [][NextLoops]_vars

\* the evaluation thread is inside a cycle of which some updates of the
\* current alerts have been applied and others are still to come
Torn ==
    /\ driver.pc = "cycle"
    /\ driver.alerts # <<>>
    /\ \E i \in driver.done + 1 .. Len(driver.telemetry_data) :
           LET entry == driver.telemetry_data[i]
           IN  /\ entry.component \in models
               /\ ~entry.outcome.raises
               /\ \/ determine_alert_level(entry.outcome.probability,
                                           alert_config.alert_thresholds) # NoLevel
                  \/ HasKey(current_alerts, entry.component)

\* C16: the evaluation loop and the dispatch loop access the current alerts
\* under mutual exclusion: the current alerts a dispatch cycle reads are the
\* state at the boundary of an evaluation cycle, never a state in which only
\* some of one evaluation cycle's updates and removals have been applied.
C16_ConsistentSnapshot ==
    [][(/\ monitor.pc = "cycle"
        /\ monitor'.pc \in {"sleep", "except"})
       => ~Torn]_vars

\* a step of a monitoring thread, from t to tn, that the cooperative stop
\* allows: a cycle in progress goes on or ends in the sleep of the loop, and
\* with the flag cleared no cycle is started
CooperativeStep(t, tn) ==
    /\ t.pc = "cycle" => tn.pc \in {"cycle", "sleep", "except"}
    /\ (~t.running /\ ~tn.running /\ t.pc # "cycle") => tn.pc # "cycle"

\* C17: stopping is cooperative for both loops: after stop_monitoring has
\* cleared the running flag a cycle in progress runs to completion, no further
\* cycle is started, and a cycle is never interrupted part-way.
C17_CooperativeStop ==
    [][/\ CooperativeStep(driver, driver')
       /\ CooperativeStep(monitor, monitor')]_vars

\* a step of a monitoring thread, from t to tn, in which the loop survives:
\* the except block leads back to the test of the flag, the loop is left only
\* at that test with the flag cleared, and with the flag set the test starts
\* the next cycle
LoopSurvives(t, tn) ==
    /\ (t.pc = "except" /\ tn.pc # "except") =>
           tn.pc = "while" \/ (tn.pc = "killed" /\ ~t.running)
    /\ tn.pc = "exited" => t.pc = "exited" \/ (t.pc = "while" /\ ~t.running)
    /\ (t.pc = "while" /\ t.running /\ tn.running /\ tn # t) =>
           tn.pc \in {"cycle", "except"}
    /\ (tn.pc = "killed" /\ t.pc # "killed") => ~t.running

\* C19: an exception raised inside an evaluation or dispatch cycle never
\* terminates the loop: it is caught, the loop sleeps for the interval, and
\* while the running flag stays set the next cycle is executed.
C19_ExceptionKeepsLoop ==
    [][/\ LoopSurvives(driver, driver')
       /\ LoopSurvives(monitor, monitor')]_vars

\* C19's case: the last dispatch cycle had an alert to send that the gate
\* admitted (no record, no quiet hours) and recorded nothing, because the send
\* raised; the dispatch thread, its flag still set, is in its next cycle
C19_Witness ==
    /\ ret.op = "process_alerts"
    /\ ret.arg # <<>>
    /\ ret.result = <<>>
    /\ ~check_quiet_hours(now, config)
    /\ DOMAIN mobile_alert_history = {}
    /\ monitor.running
    /\ monitor.pc = "cycle"

---------------------------------------------------------------------------
(* Loading the configurations: _load_alert_config and _load_or_create_config *)
(* on a configuration file that is absent, is not JSON, or holds a document  *)

\* documents an alert configuration file can hold: the default with any three
\* thresholds, a document without "alert_thresholds", and one whose
\* thresholds lack "low"
AlertConfigDocuments ==
    {WithThresholds(th) : th \in [high : ThresholdGrid, medium : ThresholdGrid,
                                  low : ThresholdGrid]}
        \cup {[notification_settings |-> DefaultAlertConfig.notification_settings,
               component_priorities |-> DefaultAlertConfig.component_priorities],
              [DefaultAlertConfig EXCEPT
                  !.alert_thresholds = [high |-> 70, medium |-> 40]]}

\* documents a mobile configuration file can hold: the configurations of the
\* runs, and documents without one of the two sections
MobileConfigDocuments ==
    MobileConfigs
        \cup {[notification_services |-> DefaultNotificationServices],
              [notification_settings |-> DefaultNotificationSettings]}

\* a configuration file: os.path.exists, whether json.load succeeds, and the
\* document it returns
ConfigFiles(documents) ==
    {[exists |-> FALSE, parses |-> FALSE, document |-> <<>>],
     [exists |-> TRUE, parses |-> FALSE, document |-> <<>>]}
        \cup {[exists |-> TRUE, parses |-> TRUE, document |-> d] : d \in documents}

\* what _load_alert_config and _load_or_create_config leave in memory: the
\* document json.load returns, as it is; the default if the file is absent or
\* json.load raises
loaded_config(file, default) ==
    IF file.exists
    THEN IF file.parses THEN file.document ELSE default
    ELSE default

\* VehicleAlertSystem._load_alert_config
load_alert_config(file) ==
    /\ alert_config' = loaded_config(file, DefaultAlertConfig)
    /\ ret' = [op |-> "load_alert_config", arg |-> file, result |-> <<>>]
    /\ UNCHANGED <<now, models, current_alerts, alert_history, mobile_vars,
                   loop_vars>>

\* MobileAlertSystem._load_or_create_config
load_or_create_config(file) ==
    /\ config' = loaded_config(file, DefaultMobileConfig)
    /\ ret' = [op |-> "load_or_create_config", arg |-> file, result |-> <<>>]
    /\ UNCHANGED <<now, vehicle_vars, firebase_initialized,
                   mobile_alert_history, loop_vars>>

\* VehicleAlertSystem.__init__ on its configuration file, then
\* MobileAlertSystem.__init__ without one
InitLoad ==
    /\ \E file \in ConfigFiles(AlertConfigDocuments) :
           /\ now = StartTime
           /\ models = Components
           /\ alert_config = loaded_config(file, DefaultAlertConfig)
           /\ current_alerts = <<>>
           /\ alert_history = <<>>
           /\ InitLoops
    /\ LET file == [exists |-> FALSE, parses |-> FALSE, document |-> <<>>]
       IN  /\ config = loaded_config(file, DefaultMobileConfig)
           /\ ret = [op |-> "load_or_create_config", arg |-> file,
                     result |-> <<>>]
    /\ firebase_initialized = FALSE
    /\ mobile_alert_history = [c \in {} |-> {}]

NextLoad ==
    \/ \E file \in ConfigFiles(AlertConfigDocuments) : load_alert_config(file)
    \/ \E file \in ConfigFiles(MobileConfigDocuments) :
           load_or_create_config(file)

SpecLoad == InitLoad /\ [][NextLoad]_vars

\* the stored alert configuration is malformed: unreadable content, a missing
\* required key, or thresholds that are not ordered
MalformedAlertConfig(file) ==
    /\ file.exists
    /\ \/ ~file.parses
       \/ ~({"alert_thresholds", "notification_settings",
             "component_priorities"} \subseteq DOMAIN file.document)
       \/ ~(Levels \subseteq DOMAIN file.document.alert_thresholds)
       \/ ~Ordered(file.document.alert_thresholds)

\* the stored mobile configuration is malformed: unreadable content or a
\* missing required key
MalformedMobileConfig(file) ==
    /\ file.exists
    /\ \/ ~file.parses
       \/ ~({"notification_settings", "notification_services"}
                \subseteq DOMAIN file.document)

\* C21: loading falls back to the built-in defaults whenever the stored
\* configuration is malformed (unreadable content, missing required keys, or
\* thresholds that violate high >= medium >= low): after the load the
\* in-memory configuration is the built-in default, so the thresholds in use
\* after a load are ordered.
C21_MalformedFallsBack ==
    /\ (ret.op = "load_alert_config" /\ MalformedAlertConfig(ret.arg))
           => alert_config = DefaultAlertConfig
    /\ (ret.op = "load_or_create_config" /\ MalformedMobileConfig(ret.arg))
           => config = DefaultMobileConfig

---------------------------------------------------------------------------
(* _check_quiet_hours called on its own, at every hour of the day, under     *)
(* quiet hours that cross midnight, do not, or are empty                     *)

\* the hours quiet_hours_start and quiet_hours_end are configured with
QuietHourChoices == {0, 7, 10, 22, 23}

\* the times of the calls: the first and the last minute of every hour of the
\* day after the start of the run
QuietCallTimes ==
    {StartTime + h * 60 + m : h \in 0 .. 23, m \in {0, 59}}

InitQuiet ==
    /\ InitVehicle(DefaultAlertConfig, Components)
    /\ \E quiet_start \in QuietHourChoices, quiet_end \in QuietHourChoices,
          respect \in BOOLEAN :
           config = [DefaultMobileConfig EXCEPT
                        !.notification_settings.quiet_hours_start = quiet_start,
                        !.notification_settings.quiet_hours_end = quiet_end,
                        !.notification_settings.respect_quiet_hours = respect]
    /\ firebase_initialized = FALSE
    /\ mobile_alert_history = [c \in {} |-> {}]

\* self._check_quiet_hours(current_time)
check_quiet_hours_call(current_time) ==
    /\ ret' = [op |-> "check_quiet_hours", arg |-> current_time,
               result |-> check_quiet_hours(current_time, config)]
    /\ UNCHANGED <<now, vehicle_vars, mobile_vars, loop_vars>>

NextQuiet ==
    \E current_time \in QuietCallTimes : check_quiet_hours_call(current_time)

SpecQuiet == InitQuiet /\ [][NextQuiet]_vars

\* the hour of the day of a time given in minutes, 0..23
HourOfDay(t) == CHOOSE h \in 0 .. 23 : \E d \in 0 .. 2 : \E m \in 0 .. 59 :
                    t = d * 1440 + h * 60 + m

\* C22: for every hour 0..23, if quiet_start > quiet_end the hour is in quiet
\* hours iff hour >= quiet_start or hour < quiet_end; otherwise iff
\* quiet_start <= hour < quiet_end, so quiet_start = quiet_end gives an empty
\* window; with respect_quiet_hours off no hour is in quiet hours.  With start
\* 22 and end 7, hours 23 and 3 are in quiet hours and hour 10 is not.
C22_QuietHoursMembership ==
    ret.op = "check_quiet_hours" =>
        LET hour == HourOfDay(ret.arg)
            quiet_start == config.notification_settings.quiet_hours_start
            quiet_end == config.notification_settings.quiet_hours_end
            respect == config.notification_settings.respect_quiet_hours
        IN  /\ ~respect => ~ret.result
            /\ (respect /\ quiet_start > quiet_end) =>
                   (ret.result <=> (hour >= quiet_start \/ hour < quiet_end))
            /\ (respect /\ quiet_start <= quiet_end) =>
                   (ret.result <=> (quiet_start <= hour /\ hour < quiet_end))
            /\ quiet_start = quiet_end => ~ret.result
            /\ (respect /\ quiet_start = 22 /\ quiet_end = 7) =>
                   /\ hour \in {23, 3} => ret.result
                   /\ hour = 10 => ~ret.result

\* C22's case: with quiet hours from 22 to 7 in force, a call at an hour after
\* midnight, 3, answers that it is in quiet hours
C22_Witness ==
    /\ ret.op = "check_quiet_hours"
    /\ config.notification_settings.respect_quiet_hours
    /\ config.notification_settings.quiet_hours_start = 22
    /\ config.notification_settings.quiet_hours_end = 7
    /\ HourOfDay(ret.arg) = 3
    /\ ret.result

---------------------------------------------------------------------------
(* get_alert_history called as days pass, between evaluations and snoozes    *)

\* the days of a run
MaxDays == 2

\* the windows get_alert_history is called with, in days
HistoryWindows == {0, 1, 2, 7}

\* a day passes
DayTick ==
    /\ now < StartTime + MaxDays * DayMinutes
    /\ now' = now + DayMinutes
    /\ UNCHANGED <<vehicle_vars, mobile_vars, ret, loop_vars>>

\* self.get_alert_history(days)
get_alert_history_call(days) ==
    /\ ret' = [op |-> "get_alert_history", arg |-> days,
               result |-> get_alert_history(days)]
    /\ UNCHANGED <<now, vehicle_vars, mobile_vars, loop_vars>>

InitHistory ==
    /\ InitVehicle(DefaultAlertConfig, Components)
    /\ config = DefaultMobileConfig
    /\ firebase_initialized = FALSE
    /\ mobile_alert_history = [c \in {} |-> {}]

NextHistory ==
    \/ DayTick
    \/ \E telemetry_data \in LoopBatches :
           process_telemetry_data(telemetry_data)
    \/ \E component \in Components : snooze_alert(component)
    \/ \E days \in HistoryWindows : get_alert_history_call(days)

SpecHistory == InitHistory /\ [][NextHistory]_vars

\* C23: get_alert_history(window) returns exactly the history entries whose
\* timestamp is strictly later than now - window, in the order in which they
\* were recorded, whether or not they are snoozed or still current.
C23_HistoryWindow ==
    [][(/\ ret'.op = "get_alert_history"
        /\ now' = now
        /\ alert_history' = alert_history)
       => /\ {ret'.result[i] : i \in 1 .. Len(ret'.result)} =
                 {ref \in 1 .. Len(alert_history) :
                     alert_history[ref].timestamp + ret'.arg * DayMinutes > now}
          /\ \A i \in 1 .. Len(ret'.result), j \in 1 .. Len(ret'.result) :
                 i < j => ret'.result[i] < ret'.result[j]]_vars

\* C23's case: the call has returned, and would return now, an entry that is
\* snoozed and no longer current, and not an entry recorded exactly one
\* window earlier
C23_Witness ==
    /\ ret.op = "get_alert_history"
    /\ ret.result = get_alert_history(ret.arg)
    /\ \E i \in 1 .. Len(ret.result) :
           /\ alert_history[ret.result[i]].snoozed_until # {}
           /\ \A k \in 1 .. Len(current_alerts) :
                  current_alerts[k].ref # ret.result[i]
    /\ \E ref \in 1 .. Len(alert_history) :
           /\ alert_history[ref].timestamp + ret.arg * DayMinutes = now
           /\ \A i \in 1 .. Len(ret.result) : ret.result[i] # ref

---------------------------------------------------------------------------
(* Evaluations and dispatch cycles over three hours, in steps of half an     *)
(* hour, under an unchanged mobile configuration                             *)

\* the half hours of a run
MaxHalfHours == 6

\* minutes between two observations of the clock in these runs
HalfHourMinutes == 30

\* time passes
HalfHourTick ==
    /\ now < StartTime + MaxHalfHours * HalfHourMinutes
    /\ now' = now + HalfHourMinutes
    /\ UNCHANGED <<vehicle_vars, mobile_vars, ret, loop_vars>>

\* the telemetry of these runs: under the default thresholds no alert, a low,
\* a medium and a high alert of the engine
CooldownBatches ==
    Batches({"engine"}, [raises : {FALSE}, probability : {10, 30, 50, 80}])

\* the mobile configurations of these runs: the default, and one that ignores
\* quiet hours; no channel enabled
CooldownConfigs ==
    {DefaultMobileConfig,
     [DefaultMobileConfig EXCEPT !.notification_settings = NoQuietHoursSettings]}

InitCooldown ==
    /\ InitVehicle(DefaultAlertConfig, Components)
    /\ config \in CooldownConfigs
    /\ firebase_initialized = FALSE
    /\ mobile_alert_history = [c \in {} |-> {}]

NextCooldown ==
    \/ HalfHourTick
    \/ \E telemetry_data \in CooldownBatches :
           process_telemetry_data(telemetry_data)
    \/ \E delivers \in Delivers : process_alerts(delivers)

SpecCooldown == InitCooldown /\ [][NextCooldown]_vars

\* C24: with an unchanged configuration, for any two consecutive notifications
\* recorded for the same component where the second has the same or a lower
\* level than the first, the second sent_time is at least the first sent_time
\* plus the cooldown of the second notification's level.
C24_CooldownOverRun ==
    [][\A c \in Components :
           (/\ c \in DOMAIN mobile_alert_history
            /\ mobile_alert_history'[c] # mobile_alert_history[c]
            /\ LevelRank(mobile_alert_history'[c].level)
                   <= LevelRank(mobile_alert_history[c].level))
           => mobile_alert_history'[c].sent_time >=
                  mobile_alert_history[c].sent_time
                      + ConfiguredCooldown(mobile_alert_history'[c].level)]_vars

\* C24's case: the last dispatch cycle replaced a component's record by one of
\* a lower level, exactly when the cooldown of that level had elapsed
C24_Witness ==
    /\ ret.op = "process_alerts"
    /\ \E c \in DOMAIN ret.records :
           /\ c \in Admitted
           /\ mobile_alert_history[c].sent_time = now
           /\ LevelRank(mobile_alert_history[c].level)
                  < LevelRank(ret.records[c].level)
           /\ now = ret.records[c].sent_time
                        + ConfiguredCooldown(mobile_alert_history[c].level)

\* C25: a notification record is never deleted: once a component has a record
\* it has one in every later state, also after the component's alert
\* recovered and was removed from the current alerts, so a component that
\* recovers and alerts again at the same or a lower level within the cooldown
\* is still suppressed.
C25_RecordNeverDeleted ==
    [][/\ DOMAIN mobile_alert_history \subseteq DOMAIN mobile_alert_history'
       /\ \A c \in Components :
              (/\ ret'.op = "process_alerts"
               /\ now' = now
               /\ current_alerts' = current_alerts
               /\ alert_history' = alert_history
               /\ c \in DOMAIN mobile_alert_history
               /\ HasKey(current_alerts, c)
               /\ LevelRank(CurrentAlert(c).alert_level)
                      <= LevelRank(mobile_alert_history[c].level)
               /\ now < mobile_alert_history[c].sent_time
                            + ConfiguredCooldown(CurrentAlert(c).alert_level))
              => /\ mobile_alert_history'[c] = mobile_alert_history[c]
                 /\ c \notin Admitted']_vars

\* C25's case: a component was notified and its alert then recovered; the
\* last dispatch cycle ran with no current alert, found the component's
\* record and left it in place
C25_Witness ==
    /\ ret.op = "process_alerts"
    /\ ret.arg = <<>>
    /\ current_alerts = <<>>
    /\ ret.records = mobile_alert_history
    /\ \E c \in DOMAIN mobile_alert_history :
           \E ref \in 1 .. Len(alert_history) :
               /\ alert_history[ref].component = c
               /\ alert_history[ref].message = mobile_alert_history[c].message

---------------------------------------------------------------------------
(* snooze_alert called from the input thread while the evaluation thread     *)
(* runs.  The call is two steps: the test "component in self.current_alerts" *)
(* and, after the configuration has been read and datetime.now() and         *)
(* timedelta() have been called, the assignment                              *)
(* self.current_alerts[component]['snoozed_until'] = ...                     *)

\* "if component in self.current_alerts:" of snooze_alert in the input thread;
\* without a current alert the call returns False
snooze_alert_check(component) ==
    /\ input.pc = "idle"
    /\ IF HasKey(current_alerts, component)
       THEN /\ input' = [pc |-> "found", component |-> component]
            /\ ret' = ret
       ELSE /\ input' = input
            /\ ret' = [op |-> "snooze_alert", arg |-> component,
                       result |-> FALSE]
    /\ UNCHANGED <<now, vehicle_vars, mobile_vars, driver, monitor, second>>

\* the assignment of snooze_alert in the input thread: the subscript
\* self.current_alerts[component] raises KeyError if the key is gone, and the
\* error leaves handle_user_input and the input loop of main(); otherwise
\* the alert the dict holds now gets snoozed_until and the call returns True
snooze_alert_assign ==
    /\ input.pc = "found"
    /\ IF HasKey(current_alerts, input.component)
       THEN LET ref == current_alerts[KeyIndex(current_alerts,
                                               input.component)].ref
                snooze_minutes ==
                    alert_config.notification_settings.snooze_duration_minutes
            IN  /\ alert_history' =
                       [alert_history EXCEPT
                           ![ref].snoozed_until = {now + snooze_minutes}]
                /\ ret' = [op |-> "snooze_alert", arg |-> input.component,
                           result |-> TRUE]
                /\ input' = NoCall
       ELSE /\ alert_history' = alert_history
            /\ ret' = ret
            /\ input' = [input EXCEPT !.pc = "raised"]
    /\ UNCHANGED <<now, models, alert_config, current_alerts, mobile_vars,
                   driver, monitor, second>>

NextInput ==
    \/ driver_start_monitoring
    \/ \E telemetry_data \in LoopBatches, raises \in BOOLEAN :
           driver_while(telemetry_data, raises)
    \/ driver_step
    \/ \E raises \in BOOLEAN : driver_finish(raises)
    \/ driver_sleep
    \/ \E component \in Components : snooze_alert_check(component)
    \/ snooze_alert_assign

SpecInput == InitLoopsSystem /\ [][NextInput]_vars

\* C26: snooze_alert called from the input thread while the evaluation loop
\* runs is atomic with respect to the evaluation's update and removal of the
\* same component: it never fails with an error, and whenever it returns True
\* the alert that received snoozed_until is the component's current alert at
\* that moment.
C26_SnoozeAtomic ==
    [][/\ input'.pc # "raised"
       /\ (input.pc = "found" /\ input'.pc = "idle")
              => /\ HasKey(current_alerts', input.component)
                 /\ alert_history'[current_alerts'[
                        KeyIndex(current_alerts', input.component)].ref]
                        .snoozed_until # {}]_vars

---------------------------------------------------------------------------
(* Snoozes and later evaluations (SpecHistory) *)

\* current_alerts[component], as its place in alert_history
CurrentRef(component) ==
    current_alerts[KeyIndex(current_alerts, component)].ref

\* C27: a snooze lasts only until the next qualifying evaluation of the
\* component: when a snoozed component is evaluated again with a qualifying
\* level, its current alert is replaced by a fresh alert without
\* snoozed_until, even though the original snoozed_until is still in the
\* future (the snoozed alert itself keeps it, in the history).
C27_SnoozeEndsAtEvaluation ==
    [][\A c \in Components :
           (/\ SnoozeInEffect(c)
            /\ ret'.op = "process_telemetry_data"
            /\ Len(alert_history') > Len(alert_history)
            /\ \E i \in Qualifying(ret'.arg) : ret'.arg[i].component = c)
           => /\ HasKey(current_alerts', c)
              /\ CurrentRef(c)' > Len(alert_history)
              /\ CurrentAlert(c)'.snoozed_until = {}
              /\ alert_history'[CurrentRef(c)] = CurrentAlert(c)]_vars

\* C27's case: after an evaluation the current alert of a component is not
\* snoozed, while the alert it replaced is snoozed until a time still to come
C27_Witness ==
    /\ ret.op = "process_telemetry_data"
    /\ \E c \in Components :
           /\ HasKey(current_alerts, c)
           /\ CurrentAlert(c).snoozed_until = {}
           /\ \E ref \in 1 .. Len(alert_history) :
                  /\ ref < CurrentRef(c)
                  /\ alert_history[ref].component = c
                  /\ \E until \in alert_history[ref].snoozed_until :
                         until > now

---------------------------------------------------------------------------
(* MobileAlertSystem.start_monitoring called while a dispatch thread exists: *)
(* a second start, or a start after a stop whose join timed out              *)

\* MobileAlertSystem.start_monitoring while the thread of an earlier start
\* has not left its loop: the flag is set and self.monitor_thread is replaced
\* by a new thread; the earlier thread goes on, unreferenced
monitor_start_monitoring_again ==
    /\ Alive(monitor)
    /\ second.pc = "idle"
    /\ config.notification_settings.enable_mobile_alerts
    /\ monitor' = [monitor EXCEPT !.running = TRUE]
    /\ second' = [second EXCEPT !.pc = "while"]
    /\ UNCHANGED <<now, vehicle_vars, mobile_vars, driver, input, ret>>

\* "while self.running:" of the second dispatch thread
second_while ==
    /\ second.pc = "while"
    /\ second' = [second EXCEPT !.pc = IF monitor.running THEN "cycle"
                                       ELSE "exited"]
    /\ UNCHANGED <<now, vehicle_vars, mobile_vars, driver, monitor, input, ret>>

\* one dispatch cycle of the second thread
second_cycle(delivers) ==
    /\ second.pc = "cycle"
    /\ LET alerts == get_current_alerts
           in_quiet_hours == check_quiet_hours(now, config)
           st == process_alerts_loop([history |-> mobile_alert_history,
                                      sends |-> <<>>],
                                     alerts, now, in_quiet_hours, delivers)
       IN  /\ mobile_alert_history' = st.history
           /\ ret' = [op |-> "process_alerts", arg |-> alerts,
                      result |-> st.sends,
                      records |-> mobile_alert_history]
           /\ second' = [second EXCEPT !.pc = "sleep"]
    /\ UNCHANGED <<now, vehicle_vars, config, firebase_initialized, driver,
                   monitor, input>>

\* time.sleep(interval) of the second dispatch thread returns
second_sleep ==
    /\ second.pc = "sleep"
    /\ second' = [second EXCEPT !.pc = "while"]
    /\ UNCHANGED <<now, vehicle_vars, mobile_vars, driver, monitor, input, ret>>

NextRestart ==
    \/ \E telemetry_data \in LoopBatches :
           process_telemetry_data(telemetry_data)
    \/ monitor_start_monitoring
    \/ monitor_stop_monitoring
    \/ monitor_start_monitoring_again
    \/ monitor_while
    \/ \E delivers \in Delivers, raises \in BOOLEAN :
           monitor_cycle(delivers, raises)
    \/ monitor_sleep
    \/ second_while
    \/ \E delivers \in Delivers : second_cycle(delivers)
    \/ second_sleep

SpecRestart == InitLoopsSystem /\ [][NextRestart]_vars

\* C28: for any sequence of start_monitoring and stop_monitoring calls at most
\* one dispatch loop thread is running cycles at any time: a start issued
\* twice, or issued after a stop whose join timed out, does not leave two
\* dispatch loops processing alerts.
C28_OneLoopPerKind ==
    ~(monitor.pc = "cycle" /\ second.pc = "cycle")

---------------------------------------------------------------------------
(* What an operation leaves alone (Spec) *)

\* the current alert of a component, if any: the object and its place
CurrentOf(c) ==
    IF HasKey(current_alerts, c)
    THEN {<<CurrentRef(c), CurrentAlert(c)>>}
    ELSE {}

\* the history entries of a component, in order
HistoryOf(c) == SelectSeq(alert_history, LAMBDA alert : alert.component = c)

\* the components of a batch whose evaluation completes: they have a model
\* and nothing raises
Completed(telemetry_data) ==
    {telemetry_data[i].component : i \in
        {k \in 1 .. Len(telemetry_data) :
            /\ telemetry_data[k].component \in models
            /\ ~telemetry_data[k].outcome.raises}}

\* an alert without its snooze mark
Unsnoozed(alert) == [alert EXCEPT !.snoozed_until = {}]

\* C29 as stated: the current alert and the history of a component change
\* only when an evaluation of that component completes with a determined
\* level; no other step changes them.
C29_ChangeOnlyAtEvaluation ==
    [][\A c \in Components :
           (CurrentOf(c)' # CurrentOf(c) \/ HistoryOf(c)' # HistoryOf(c))
           => /\ ret'.op = "process_telemetry_data"
              /\ c \in Completed(ret'.arg)]_vars

\* C29, amended: the current alert and the history of a component change only
\* when an evaluation of that component completes, or when snooze_alert marks
\* the component's current alert with snoozed_until and changes nothing else:
\* a batch without the component, a component without a model and an
\* evaluation that raises leave the component's current alert and its history
\* entries unchanged.
C29_ChangeOnlyAtEvaluationOrSnooze ==
    [][\A c \in Components :
           (CurrentOf(c)' # CurrentOf(c) \/ HistoryOf(c)' # HistoryOf(c))
           => \/ /\ ret'.op = "process_telemetry_data"
                 /\ c \in Completed(ret'.arg)
              \/ /\ ret'.op = "snooze_alert"
                 /\ ret'.arg = c
                 /\ current_alerts' = current_alerts
                 /\ Len(alert_history') = Len(alert_history)
                 /\ \A i \in 1 .. Len(alert_history) :
                        Unsnoozed(alert_history'[i])
                            = Unsnoozed(alert_history[i])]_vars

\* C29's case: the last evaluation raised for a component and completed for
\* another one; the first component's alert, raised by an earlier evaluation,
\* is still current
C29_Witness ==
    /\ ret.op = "process_telemetry_data"
    /\ \E i \in 1 .. Len(ret.arg) :
           /\ ret.arg[i].outcome.raises
           /\ ret.arg[i].component \in models
           /\ HasKey(current_alerts, ret.arg[i].component)
           /\ \A j \in 1 .. Len(ret.result) :
                  ret.result[j] > CurrentRef(ret.arg[i].component)
    /\ ret.result # <<>>

---------------------------------------------------------------------------
(* An alert that stays current: one evaluation raises it, and from then on   *)
(* only the clock and the dispatch loop act.  The dispatch loop keeps        *)
(* running (its sleep returns and its cycle completes) and time advances up  *)
(* to the end of the run.                                                     *)

\* the hours of a run: from 21:00, through the default quiet hours, to the
\* next morning
MaxHours == 12

\* an hour (TickMinutes) passes
HourTick ==
    /\ now < StartTime + MaxHours * TickMinutes
    /\ now' = now + TickMinutes
    /\ UNCHANGED <<vehicle_vars, mobile_vars, ret, loop_vars>>

\* the end of the run
EndTime == StartTime + MaxHours * TickMinutes

\* the one evaluation of these runs: a low, a medium or a high alert of the
\* engine
LiveBatches ==
    {<<[component |-> "engine", outcome |-> o]>> :
        o \in [raises : {FALSE}, probability : {30, 50, 80}]}

\* the first evaluation cycle
first_process_telemetry_data(telemetry_data) ==
    /\ alert_history = <<>>
    /\ process_telemetry_data(telemetry_data)

\* a dispatch cycle that completes
dispatch_cycle == \E delivers \in Delivers : process_alerts(delivers)

NextLive ==
    \/ \E telemetry_data \in LiveBatches :
           first_process_telemetry_data(telemetry_data)
    \/ HourTick
    \/ dispatch_cycle

SpecLive ==
    /\ InitCooldown
    /\ [][NextLive]_vars
    /\ WF_vars(HourTick)
    /\ WF_vars(dispatch_cycle)

\* the times of a run
LiveTimes == {StartTime + k * TickMinutes : k \in 0 .. MaxHours}

\* the component's current alert would pass the quiet hours at the end of the
\* run
AdmittedAtEnd(c) ==
    ~quiet_hours_suppress(CurrentAlert(c).alert_level,
                          check_quiet_hours(EndTime, config), config)

\* C30: if a component's alert stays current at a fixed level, the dispatch
\* loop keeps running and time keeps advancing, the component is notified
\* again and again outside quiet hours (at any hour for a High alert with the
\* override): a current alert without a record gets one, and after each
\* recorded notification whose cooldown ends within the run another one
\* follows.
C30_NotifiedAgain ==
    /\ (/\ HasKey(current_alerts, "engine")
        /\ "engine" \notin DOMAIN mobile_alert_history
        /\ AdmittedAtEnd("engine"))
           ~> ("engine" \in DOMAIN mobile_alert_history)
    /\ \A t \in LiveTimes :
           (/\ HasKey(current_alerts, "engine")
            /\ "engine" \in DOMAIN mobile_alert_history
            /\ mobile_alert_history["engine"].sent_time = t
            /\ t + ConfiguredCooldown(CurrentAlert("engine").alert_level)
                   <= EndTime
            /\ AdmittedAtEnd("engine"))
               ~> (/\ "engine" \in DOMAIN mobile_alert_history
                   /\ mobile_alert_history["engine"].sent_time
                          >= t + ConfiguredCooldown(
                                     CurrentAlert("engine").alert_level))

\* C30's case: the last dispatch cycle found the record of an earlier
\* notification of the engine's alert and, the cooldown over, notified again
\* at the same level
C30_Witness ==
    /\ ret.op = "process_alerts"
    /\ "engine" \in DOMAIN ret.records
    /\ "engine" \in Admitted
    /\ mobile_alert_history["engine"].level = ret.records["engine"].level
    /\ mobile_alert_history["engine"].sent_time = now
    /\ now >= ret.records["engine"].sent_time
                  + ConfiguredCooldown(mobile_alert_history["engine"].level)

=============================================================================
